---- MODULE Spec2Model ----
(***************************************************************************)
(* Model of the maddy message delivery pipeline:                           *)
(*   - the Dispatcher (dispatcherDelivery: Start / AddRcpt / Body /        *)
(*     Commit / Abort / checkResult),                                      *)
(*   - the persistent retry Queue (acceptance, delivery attempts,          *)
(*     start-up recovery).                                                 *)
(* Strings are modelled as sequences of atoms; an atom is one character,   *)
(* except "pm"/"PM" which stand for the word postmaster in lower and in    *)
(* mixed case.                                                             *)
(***************************************************************************)
EXTENDS Integers, Sequences, FiniteSets, TLC

Nil == "nil"

(***************************************************************************)
(* Bounds of the model.                                                    *)
(***************************************************************************)
\* number of AddRcpt calls the session makes for one message
MaxRcptCalls == 3
\* the same, for sessions whose check groups hold checks
MaxCheckedRcptCalls == 2

(***************************************************************************)
(* Generic helpers.                                                        *)
(***************************************************************************)
Range(s) == { s[i] : i \in 1..Len(s) }

RECURSIVE Perms(_)
Perms(S) ==
  IF S = {} THEN {<<>>}
  ELSE UNION { { <<x>> \o p : p \in Perms(S \ {x}) } : x \in S }

\* int32 arithmetic of checkScore: addition wraps around
MaxInt32 == 2147483647
MinInt32 == (-MaxInt32) - 1
Add32(a, b) ==
  IF b > 0 /\ a > MaxInt32 - b THEN (a + MinInt32) + (b + MinInt32)
  ELSE IF b < 0 /\ a < MinInt32 - b THEN (a - MinInt32) + (b - MinInt32)
  ELSE a + b

(***************************************************************************)
(* Addresses.                                                              *)
(***************************************************************************)
lowerChar(c) ==
  CASE c = "U" -> "u"
    [] c = "S" -> "s"
    [] c = "D" -> "d"
    [] c = "PM" -> "pm"
    [] OTHER -> c

\* strings.ToLower
RECURSIVE ToLower(_)
ToLower(s) == IF s = <<>> THEN <<>> ELSE <<lowerChar(Head(s))>> \o ToLower(Tail(s))

\* strings.Split(addr, "@")
RECURSIVE SplitAt(_)
SplitAt(s) ==
  IF \A i \in 1..Len(s) : s[i] # "@" THEN <<s>>
  ELSE LET i == CHOOSE k \in 1..Len(s) : s[k] = "@" /\ \A j \in 1..(k-1) : s[j] # "@"
       IN <<SubSeq(s, 1, i-1)>> \o SplitAt(SubSeq(s, i+1, Len(s)))

\* strings.EqualFold(s, "postmaster")
EqualFoldPostmaster(s) == ToLower(s) = <<"pm">>

splitAddress(addr) ==
  LET parts == SplitAt(addr)
      bad == [mailbox |-> <<>>, domain |-> <<>>, err |-> TRUE]
  IN CASE Len(parts) = 1 ->
            IF EqualFoldPostmaster(parts[1])
            THEN [mailbox |-> parts[1], domain |-> <<>>, err |-> FALSE]
            ELSE bad
       [] Len(parts) = 2 ->
            IF Len(parts[1]) = 0 \/ Len(parts[2]) = 0
            THEN bad
            ELSE [mailbox |-> parts[1], domain |-> parts[2], err |-> FALSE]
       [] OTHER -> bad

(***************************************************************************)
(* Dispatcher configuration (immutable after init).                        *)
(***************************************************************************)
Targets == {"t1", "t2"}
RcptBlocks == {"rbAddr", "rbDom", "rbDef", "rbRej"}
SourceBlocks == {"srcAddr", "srcDom", "srcDef", "srcRej"}

\* rcptBlock.targets
blockTargets(b) ==
  CASE b = "rbAddr" -> <<"t1">>
    [] b = "rbDom" -> <<"t1", "t2">>
    [] b = "rbDef" -> <<"t2">>
    [] OTHER -> <<>>

\* recipient blocks none of which rejects
rcptRejectErrIgnored(b) == [kind |-> "nil", at |-> "none"]

\* rcptBlock.rejectErr
rcptRejectErr(b) == IF b = "rbRej" THEN [kind |-> "blockReject", at |-> b] ELSE [kind |-> "nil", at |-> "none"]

\* sourceBlock.rejectErr
sourceRejectErr(b) == IF b = "srcRej" THEN [kind |-> "blockReject", at |-> b] ELSE [kind |-> "nil", at |-> "none"]

\* Dispatcher.perSource: keys are stored lowercased
perSource ==
  ( <<"s", "@", "d">> :> "srcAddr" ) @@ ( <<"d">> :> "srcDom" ) @@ ( <<"bad">> :> "srcRej" )

defaultSource == "srcDef"

\* sourceBlock.perRcpt: keys are stored lowercased
perRcpt(src) ==
  IF src = "srcDef" THEN ( <<"bad">> :> "rbRej" )
  ELSE ( <<"u", "@", "d">> :> "rbAddr" ) @@ ( <<"d">> :> "rbDom" ) @@ ( <<"bad">> :> "rbRej" )

\* sourceBlock.defaultRcpt
defaultRcpt(src) == "rbDef"

\* MAIL FROM and RCPT TO values the session passes in
Senders ==
  { <<"S", "@", "D">>, <<"x", "@", "d">>, <<"x", "@", "e">>, <<"x", "@", "bad">>, <<"x">>, <<"d">> }
RcptAddrs ==
  { <<"U", "@", "D">>, <<"v", "@", "d">>, <<"v", "@", "e">>, <<"v", "@", "bad">>, <<"v">> }

\* values of CheckResult.ScoreAdjust returned by checks
ScoreAdjusts == {-5, 0, 5}
\* configured thresholds, *int in the source: set = FALSE is the nil pointer
RejectScores == { [set |-> FALSE, val |-> 0], [set |-> TRUE, val |-> 10] }
QuarantineScores == { [set |-> FALSE, val |-> 0], [set |-> TRUE, val |-> 5] }

\* error values: the nil error, and an error of some kind raised at some place
NoErr == [kind |-> "nil", at |-> "none"]
Err(kind, at) == [kind |-> kind, at |-> at]

\* module.CheckResult (a result that rejects carries nothing else of interest):
\* a check rejects, asks for quarantine, or adjusts the score
CheckResults ==
  { [rej |-> TRUE, quar |-> FALSE, adj |-> 0], [rej |-> FALSE, quar |-> TRUE, adj |-> 0] }
    \cup [rej : {FALSE}, quar : {FALSE}, adj : ScoreAdjusts]

VARIABLES
  cfg,         \* Dispatcher config: [rejectScore, quarantineScore]
  env,         \* what is configured around the dispatcher: [checks, faulty, trace]
  dphase,      \* position of the session driving the delivery
  dd,          \* the dispatcherDelivery struct
  quarantine,  \* msgMeta.Quarantine
  chk,         \* check states: [global, source : "none"|"open"|"closed", rcptCreated : block -> count,
               \*   rcptClosed : block -> count, rcptOrder : blocks in the order their state was stored]
  objs,        \* delivery objects returned by target.Start, in creation order
  startCalls,  \* number of target.Start calls per target
  nrcpt,       \* number of AddRcpt calls made
  routed,      \* per target, the recipients the dispatcher passed to delivery.AddRcpt
  dlast        \* the last dispatcher call: [op, arg, ret, order, fails]

dvars == <<cfg, env, dphase, dd, quarantine, chk, objs, startCalls, nrcpt, routed, dlast>>

\* the queue (described with its actions below)
VARIABLES
  qstate,   \* "running", "closed" (after Close) or "crashed"
  qfiles,   \* per delivery ID, the files of the queue directory
  qmeta,    \* per delivery ID, the content of the .meta file: [to, tries]
  wheel,    \* the delivery IDs scheduled on the time wheel (in memory)
  hist,     \* per delivery ID, what the downstream target has seen
  qrcpt,    \* per delivery ID, what delivery.AddRcpt returned in the latest attempt
  qbody,    \* per delivery ID, what delivery.Body returned in the latest attempt
  qgen      \* the queue object: "first" (made on the empty directory) or "reinit"

qvars == <<qstate, qfiles, qmeta, wheel, hist, qrcpt, qbody, qgen>>

\* the MTA-STS policy cache (described with its actions below)
VARIABLES
  mnow,     \* time.Now(), in seconds
  mfile,    \* the file <Location>/<domain> of the one policy domain
  mlast     \* the last call on the Cache, with what it met and what it returned

mvars == <<mnow, mfile, mlast>>

\* the module registry (described with its actions below)
VARIABLES
  modules,           \* map name -> factory (Nil: no entry)
  modulesLck,        \* sync.RWMutex: [w : the goroutine holding Lock or Nil, r : those holding RLock]
  ModuleDirectives,  \* the names whose cfgDirectives were appended, in order
  instances,         \* map name -> module instance (Nil: no entry)
  instancesLck,      \* sync.RWMutex
  rpc,               \* per goroutine: the call it is in, where it is, what its last call returned
  initDone           \* the program has finished its initialisation (the configuration is set up)

rvars == <<modules, modulesLck, ModuleDirectives, instances, instancesLck, rpc, initDone>>

\* single calls looked at step by step or on their own (described with their actions below)
VARIABLES
  storePc,   \* Cache.store in progress: [pc, id, policy]
  loaded,    \* what the last Cache.load of another goroutine or process met
  download,  \* the last downloadPolicy call: [chain : what the servers answer, ret]
  pipe,      \* a passThroughPipeline call: [steps : what each step's Pass returns, ran, ret]
  dest,      \* a destinationStep.Pass call: [conds, substeps, to, matched, ctxTo, ret]
  sqld,      \* a SQLStorage.Deliver call: [to, body, unknown, ret : [err, stored]]
  sdata      \* a SMTPSession.Data call: [in : what the calls it makes return, ret]

xvars == <<storePc, loaded, download, pipe, dest, sqld, sdata>>
vars == <<dvars, qvars, mvars, rvars, xvars>>

\* adj: the sum of the ScoreAdjust values of the check results the call processed
\* hooks: the check hooks the call ran, in order, as <<check state, hook>>
\* hdr: the call added the fields the checks produced to the message header
\* res: the check result handed to checkResult, when the call is checkResult itself
NoCall == [op |-> "none", arg |-> <<>>, ret |-> NoErr, order |-> <<>>, fails |-> {}, adj |-> 0,
           hooks |-> <<>>, hdr |-> FALSE, res |-> [rej |-> FALSE, quar |-> FALSE, adj |-> 0]]

NewDD ==
  [ globalChecksState |-> FALSE,
    sourceChecksState |-> FALSE,
    rcptChecksState   |-> {},
    sourceAddr        |-> <<>>,
    sourceBlock       |-> Nil,
    deliveries        |-> [t \in Targets |-> 0],
    checkScore        |-> 0 ]

NewChk == [global |-> "none", source |-> "none",
           rcptCreated |-> [b \in RcptBlocks |-> 0], closeOrder |-> <<>>,
           rcptClosed |-> [b \in RcptBlocks |-> 0], rcptOrder |-> <<>>]

\* a delivery object as the target keeps it: the AddRcpt calls it received (with
\* whether it accepted the recipient) and how often Body, Commit, Abort were called
NewObj(t) == [target |-> t, calls |-> <<>>, bodies |-> 0, commits |-> 0, aborts |-> 0]

\* env.checks: the check groups hold checks (whose results are arbitrary); with
\* no check configured every hook returns the zero CheckResult.
\* env.faulty: target.Start and the deliveries' methods may return errors.
NoChecks == { [rej |-> FALSE, quar |-> FALSE, adj |-> 0] }
\* env.trace: the hooks the checks see are recorded (dlast.hooks, chk.rcptOrder);
\* the checks then reject, pass or raise the score.
TracedResults == { r \in CheckResults : ~r.quar /\ r.adj >= 0 }
PossibleResults ==
  IF ~env.checks THEN NoChecks ELSE IF env.trace THEN TracedResults ELSE CheckResults
\* the addresses the session passes in: with checks configured, one sender per
\* outcome of the sender resolution and one recipient per recipient block
SessionSenders == IF env.checks THEN { <<"x", "@", "d">>, <<"x">> } ELSE Senders
SessionRcpts ==
  IF env.trace THEN { <<"U", "@", "D">>, <<"v", "@", "e">> }
  ELSE IF env.checks THEN { <<"U", "@", "D">>, <<"v", "@", "e">>, <<"v", "@", "bad">> }
  ELSE RcptAddrs
\* the outcomes a call to a target or a delivery can have
CallOutcomes == IF env.faulty THEN {TRUE, FALSE} ELSE {TRUE}

DInitFor(E) ==
  /\ env \in E
  /\ cfg \in [rejectScore : RejectScores, quarantineScore : QuarantineScores]
  /\ (~env.checks) => (~cfg.rejectScore.set /\ ~cfg.quarantineScore.set)
  /\ dphase = "init"
  /\ dd = NewDD
  /\ quarantine = FALSE
  /\ chk = NewChk
  /\ objs = <<>>
  /\ startCalls = [t \in Targets |-> 0]
  /\ nrcpt = 0
  /\ routed = [t \in Targets |-> <<>>]
  /\ dlast = NoCall

(***************************************************************************)
(* A handler is computed on a work record w; every step maps a record to   *)
(* the set of records the step can produce, and is skipped once err is set *)
(* (the handler has returned). oerr is the function-scope variable err of  *)
(* Start, which its deferred closures read.                                *)
(***************************************************************************)
Work == [dd |-> dd, quar |-> quarantine, chk |-> chk, objs |-> objs,
         starts |-> startCalls, routed |-> routed, err |-> NoErr, oerr |-> NoErr,
         cur |-> 0, adj |-> 0, hooks |-> <<>>, hdr |-> FALSE]

\* a checkResult that reads an unset threshold as zero
checkResultUnsetAsZero(w, r) ==
  IF r.rej THEN [w EXCEPT !.err = Err("checkReject", "check")]
  ELSE
    LET q1 == w.quar \/ r.quar
        s1 == Add32(w.dd.checkScore, r.adj)
        w1 == [w EXCEPT !.dd.checkScore = s1, !.quar = q1]
    IN IF s1 >= cfg.rejectScore.val
       THEN [w1 EXCEPT !.err = Err("550 5.7.0", "score")]
       ELSE IF s1 >= cfg.quarantineScore.val
            THEN [w1 EXCEPT !.quar = TRUE]
            ELSE w1

\* a checkResult that turns a score at the reject threshold into a temporary failure
checkResultTempFail(w, r) ==
  IF r.rej THEN [w EXCEPT !.err = Err("checkReject", "check")]
  ELSE
    LET q1 == w.quar \/ r.quar
        s1 == Add32(w.dd.checkScore, r.adj)
        w1 == [w EXCEPT !.dd.checkScore = s1, !.quar = q1]
    IN IF cfg.rejectScore.set /\ s1 >= cfg.rejectScore.val
       THEN [w1 EXCEPT !.err = Err("451 4.7.0", "score")]
       ELSE IF cfg.quarantineScore.set /\ s1 >= cfg.quarantineScore.val
            THEN [w1 EXCEPT !.quar = TRUE]
            ELSE w1

\* a checkResult that ignores a negative ScoreAdjust
checkResultClampsNegative(w, r) ==
  IF r.rej THEN [w EXCEPT !.err = Err("checkReject", "check")]
  ELSE
    LET q1 == w.quar \/ r.quar
        s1 == Add32(w.dd.checkScore, IF r.adj < 0 THEN 0 ELSE r.adj)
        w1 == [w EXCEPT !.dd.checkScore = s1, !.quar = q1]
    IN IF cfg.rejectScore.set /\ s1 >= cfg.rejectScore.val
       THEN [w1 EXCEPT !.err = Err("550 5.7.0", "score")]
       ELSE IF cfg.quarantineScore.set /\ s1 >= cfg.quarantineScore.val
            THEN [w1 EXCEPT !.quar = TRUE]
            ELSE w1

\* a checkResult that computes the flag anew from the result and the score
checkResultRecomputesFlag(w, r) ==
  IF r.rej THEN [w EXCEPT !.err = Err("checkReject", "check")]
  ELSE
    LET s1 == Add32(w.dd.checkScore, r.adj)
        w1 == [w EXCEPT !.dd.checkScore = s1, !.quar = r.quar]
    IN IF cfg.rejectScore.set /\ s1 >= cfg.rejectScore.val
       THEN [w1 EXCEPT !.err = Err("550 5.7.0", "score")]
       ELSE IF cfg.quarantineScore.set /\ s1 >= cfg.quarantineScore.val
            THEN [w1 EXCEPT !.quar = TRUE]
            ELSE w1

\* dispatcherDelivery.checkResult
checkResult(w, r) ==
  IF r.rej THEN [w EXCEPT !.err = Err("checkReject", "check")]
  ELSE
    LET q1 == w.quar \/ r.quar
        s1 == Add32(w.dd.checkScore, r.adj)
        w1 == [w EXCEPT !.dd.checkScore = s1, !.quar = q1]
    IN IF cfg.rejectScore.set /\ s1 >= cfg.rejectScore.val
       THEN [w1 EXCEPT !.err = Err("550 5.7.0", "score")]
       ELSE IF cfg.quarantineScore.set /\ s1 >= cfg.quarantineScore.val
            THEN [w1 EXCEPT !.quar = TRUE]
            ELSE w1

\* one check hook called, with any result the check may return
RunCheck(W, st, hook) ==
  UNION { IF w.err # NoErr THEN {w}
          ELSE { checkResult([w EXCEPT !.adj = IF r.rej THEN @ ELSE @ + r.adj,
                                       !.hooks = IF env.trace THEN Append(@, <<st, hook>>)
                                                 ELSE @], r)
                 : r \in PossibleResults } : w \in W }

(***************************************************************************)
(* Dispatcher.Start                                                        *)
(***************************************************************************)
\* lines 100-123: exact lowercased address, then lowercased domain, then default
resolveSource(from) ==
  IF ToLower(from) \in DOMAIN perSource
  THEN [block |-> perSource[ToLower(from)], err |-> NoErr]
  ELSE LET sp == splitAddress(from)
       IN IF sp.err THEN [block |-> Nil, err |-> Err("501 5.1.3", "sender")]
          ELSE IF ToLower(sp.domain) \in DOMAIN perSource
               THEN [block |-> perSource[ToLower(sp.domain)], err |-> NoErr]
               ELSE [block |-> defaultSource, err |-> NoErr]

\* The two deferred closures of Start, run last-registered first when Start
\* returns. Both test the function-scope variable err (w.oerr). The returns
\* inside `if err := ...; err != nil` return a shadowing variable and leave the
\* function-scope one as the last NewMessage call set it.
StartDefers(w) ==
  IF w.oerr = NoErr THEN w
  ELSE
    LET w1 == IF w.chk.source = "open"
              THEN [w EXCEPT !.chk.source = "closed",
                             !.chk.closeOrder = Append(@, "source")]
              ELSE w
    IN IF w1.chk.global = "open"
       THEN [w1 EXCEPT !.chk.global = "closed",
                       !.chk.closeOrder = Append(@, "global")]
       ELSE w1

StartOutcomes(from) ==
  LET w0 == [Work EXCEPT !.dd = NewDD]
      \* line 81: d.globalChecks.NewMessage; on error return before any defer
      failNew == IF env.checks THEN { [w0 EXCEPT !.err = Err("newMessage", "global")] } ELSE {}
      \* lines 90-96
      A == RunCheck(RunCheck({ [w0 EXCEPT !.chk.global = "open"] }, "global", "Connection"),
                    "global", "Sender")
      B == { IF w.err # NoErr THEN w ELSE [w EXCEPT !.dd.globalChecksState = TRUE] : w \in A }
      \* lines 100-129
      rs == resolveSource(from)
      C == { IF w.err # NoErr THEN w
             ELSE IF rs.err # NoErr THEN [w EXCEPT !.err = rs.err]
             ELSE IF sourceRejectErr(rs.block) # NoErr
                  THEN [w EXCEPT !.err = sourceRejectErr(rs.block)]
                  ELSE [w EXCEPT !.dd.sourceBlock = rs.block] : w \in B }
      \* line 131: sourceBlock.checks.NewMessage assigns the function-scope err
      D == UNION { IF w.err # NoErr THEN {w}
                   ELSE { [w EXCEPT !.chk.source = "open"] } \cup
                        IF env.checks
                        THEN { [w EXCEPT !.err = Err("newMessage", "source"),
                                         !.oerr = Err("newMessage", "source")] }
                        ELSE {} : w \in C }
      \* lines 140-150
      E == RunCheck(RunCheck(D, "source", "Connection"), "source", "Sender")
      F == { IF w.err # NoErr THEN w
             ELSE [w EXCEPT !.dd.sourceChecksState = TRUE, !.dd.sourceAddr = from] : w \in E }
  IN failNew \cup { StartDefers(w) : w \in F }

DStart ==
  /\ dphase = "init"
  /\ \E from \in SessionSenders : \E w \in StartOutcomes(from) :
       /\ dphase' = IF w.err = NoErr THEN "ready" ELSE "start_failed"
       /\ dd' = IF w.err = NoErr THEN w.dd ELSE NewDD
       /\ quarantine' = w.quar
       /\ chk' = w.chk
       /\ dlast' = [NoCall EXCEPT !.op = "Start", !.arg = from, !.ret = w.err, !.adj = w.adj,
                                   !.hooks = w.hooks]
  /\ UNCHANGED <<qvars, mvars, rvars, xvars, cfg, env, objs, startCalls, nrcpt, routed>>

(***************************************************************************)
(* dispatcherDelivery.AddRcpt                                              *)
(***************************************************************************)
\* a lookup that tries the domain key before the complete address
resolveRcptDomainFirst(src, to) ==
  LET sp == splitAddress(to)
  IN IF ~sp.err /\ ToLower(sp.domain) \in DOMAIN perRcpt(src)
     THEN [block |-> perRcpt(src)[ToLower(sp.domain)], err |-> NoErr]
     ELSE IF ToLower(to) \in DOMAIN perRcpt(src)
          THEN [block |-> perRcpt(src)[ToLower(to)], err |-> NoErr]
          ELSE IF sp.err THEN [block |-> Nil, err |-> Err("501 5.1.3", "rcpt")]
               ELSE [block |-> defaultRcpt(src), err |-> NoErr]

\* lines 175-198
resolveRcpt(src, to) ==
  IF ToLower(to) \in DOMAIN perRcpt(src)
  THEN [block |-> perRcpt(src)[ToLower(to)], err |-> NoErr]
  ELSE LET sp == splitAddress(to)
       IN IF sp.err THEN [block |-> Nil, err |-> Err("501 5.1.3", "rcpt")]
          ELSE IF ToLower(sp.domain) \in DOMAIN perRcpt(src)
               THEN [block |-> perRcpt(src)[ToLower(sp.domain)], err |-> NoErr]
               ELSE [block |-> defaultRcpt(src), err |-> NoErr]

\* lines 205-220: the per-block check state, created on first use and stored
\* only after CheckConnection and CheckSender passed
rcptState(w, b) ==
  IF b \in w.dd.rcptChecksState THEN {w}
  ELSE LET N == { [w EXCEPT !.chk.rcptCreated[b] = @ + 1] } \cup
                IF env.checks THEN { [w EXCEPT !.err = Err("newMessage", b)] } ELSE {}
       IN { IF v.err # NoErr THEN v
            ELSE [v EXCEPT !.dd.rcptChecksState = @ \cup {b},
                           !.chk.rcptOrder = IF env.trace THEN Append(@, b) ELSE @]
            : v \in RunCheck(RunCheck(N, b, "Connection"), b, "Sender") }

\* lines 229-243: the local variable `delivery` (w.cur) of one loop iteration:
\* the memoized delivery of the target, or a new one from target.Start
targetDeliveryNoMemo(w, t) ==
  IF w.dd.deliveries[t] # 0 THEN { [w EXCEPT !.cur = w.dd.deliveries[t]] }
  ELSE { [w EXCEPT !.starts[t] = @ + 1, !.err = Err("startErr", t)] : ok \in CallOutcomes \ {TRUE} }
       \cup
       { [w EXCEPT !.starts[t] = @ + 1,
                   !.objs = Append(@, NewObj(t)),
                   !.cur = Len(w.objs) + 1] }

targetDelivery(w, t) ==
  IF w.dd.deliveries[t] # 0 THEN { [w EXCEPT !.cur = w.dd.deliveries[t]] }
  ELSE { [w EXCEPT !.starts[t] = @ + 1, !.err = Err("startErr", t)] : ok \in CallOutcomes \ {TRUE} }
       \cup
       { [w EXCEPT !.starts[t] = @ + 1,
                   !.objs = Append(@, NewObj(t)),
                   !.dd.deliveries[t] = Len(w.objs) + 1,
                   !.cur = Len(w.objs) + 1] }

\* lines 245-249: delivery.AddRcpt(to), which the target accepts or rejects
deliveryAddRcpt(w, t, to) ==
  LET r == [w EXCEPT !.routed[t] = Append(@, to)]
  IN { [r EXCEPT !.objs[w.cur].calls = Append(@, [to |-> to, ok |-> ok]),
                 !.err = IF ok THEN NoErr ELSE Err("rcptErr", t)] : ok \in CallOutcomes }

\* lines 228-250
RECURSIVE targetLoop(_, _, _)
targetLoop(W, ts, to) ==
  IF ts = <<>> THEN W
  ELSE targetLoop(
         UNION { IF w.err # NoErr THEN {w}
                 ELSE UNION { IF v.err # NoErr THEN {v} ELSE deliveryAddRcpt(v, Head(ts), to)
                              : v \in targetDelivery(w, Head(ts)) }
                 : w \in W },
         Tail(ts), to)

AddRcptOutcomes(to) ==
  LET rr == resolveRcpt(dd.sourceBlock, to)
  IN IF rr.err # NoErr THEN { [Work EXCEPT !.err = rr.err] }
     ELSE IF rcptRejectErr(rr.block) # NoErr
          THEN { [Work EXCEPT !.err = rcptRejectErr(rr.block)] }
          ELSE targetLoop(RunCheck(rcptState(Work, rr.block), rr.block, "Rcpt"),
                          blockTargets(rr.block), to)

DAddRcpt ==
  /\ dphase = "ready"
  /\ nrcpt < (IF env.checks THEN MaxCheckedRcptCalls ELSE MaxRcptCalls)
  /\ \E to \in SessionRcpts : \E w \in AddRcptOutcomes(to) :
       /\ dd' = w.dd
       /\ quarantine' = w.quar
       /\ chk' = w.chk
       /\ objs' = w.objs
       /\ startCalls' = w.starts
       /\ routed' = w.routed
       /\ dlast' = [NoCall EXCEPT !.op = "AddRcpt", !.arg = to, !.ret = w.err, !.adj = w.adj,
                                   !.hooks = w.hooks]
  /\ nrcpt' = nrcpt + 1
  /\ UNCHANGED <<qvars, mvars, rvars, xvars, cfg, env, dphase>>

(***************************************************************************)
(* dispatcherDelivery.Body                                                 *)
(***************************************************************************)
\* CheckBody on the check states sts, one after the other
RECURSIVE RunChecks(_, _)
RunChecks(W, sts) ==
  IF sts = <<>> THEN W ELSE RunChecks(RunCheck(W, Head(sts), "Body"), Tail(sts))

\* the targets that have a delivery in dd.deliveries
Opened(d) == { t \in Targets : d.deliveries[t] # 0 }

\* the deliveries whose next call may fail
PossibleFails == IF env.faulty THEN SUBSET Opened(dd) ELSE {{}}

\* lines 277-283: delivery.Body in the iteration order of the map, returning
\* at the first failure; fails = the deliveries whose Body fails when called
RECURSIVE bodyLoop(_, _, _)
bodyLoop(w, order, fails) ==
  IF order = <<>> THEN w
  ELSE LET t == Head(order)
           w1 == [w EXCEPT !.objs[w.dd.deliveries[t]].bodies = @ + 1]
       IN IF t \in fails THEN [w1 EXCEPT !.err = Err("bodyErr", t)]
          ELSE bodyLoop(w1, Tail(order), fails)

\* the orders in which Body may find the recipient check states in the map (one
\* order stands for all when the hooks are not recorded: the results are arbitrary)
CheckOrders ==
  IF env.trace THEN Perms(dd.rcptChecksState)
  ELSE { CHOOSE o \in Perms(dd.rcptChecksState) : TRUE }

\* a Body that hands the message to the deliveries before it runs the checks
BodyOutcomesDeliverFirst(corder, order, fails) ==
  LET w0 == bodyLoop([Work EXCEPT !.hdr = TRUE], order, fails)
  IN IF w0.err # NoErr THEN {w0} ELSE RunChecks({w0}, <<"global", "source">> \o corder)

\* corder: the order in which the map dd.rcptChecksState is iterated
BodyOutcomes(corder, order, fails) ==
  LET \* lines 256-266: global, source, then every stored rcpt check state
      A == RunChecks({Work}, <<"global", "source">> \o corder)
      \* lines 270-275 add the header fields, lines 277-283 call the deliveries
  IN { IF w.err # NoErr THEN w ELSE bodyLoop([w EXCEPT !.hdr = TRUE], order, fails) : w \in A }

DBody ==
  /\ dphase = "ready"
  /\ \E i \in 1..Len(objs) : \E j \in 1..Len(objs[i].calls) : objs[i].calls[j].ok
  /\ \E corder \in CheckOrders :
     \E order \in Perms(Opened(dd)) : \E fails \in PossibleFails :
       \E w \in BodyOutcomes(corder, order, fails) :
         /\ dphase' = IF w.err = NoErr THEN "body_ok" ELSE "body_failed"
         /\ dd' = w.dd
         /\ quarantine' = w.quar
         /\ objs' = w.objs
         /\ dlast' = [NoCall EXCEPT !.op = "Body", !.ret = w.err, !.adj = w.adj,
                                     !.hooks = w.hooks, !.hdr = w.hdr]
  /\ UNCHANGED <<qvars, mvars, rvars, xvars, cfg, env, chk, startCalls, nrcpt, routed>>

(***************************************************************************)
(* dispatcherDelivery.Commit                                               *)
(***************************************************************************)
\* a loop that aborts the deliveries already committed when a Commit fails
RECURSIVE commitLoopCompensates(_, _, _)
commitLoopCompensates(w, order, fails) ==
  IF order = <<>> THEN w
  ELSE LET t == Head(order)
           w1 == [w EXCEPT !.objs[w.dd.deliveries[t]].commits = @ + 1]
       IN IF t \in fails
          THEN [w1 EXCEPT !.err = Err("commitErr", t),
                          !.objs = [i \in DOMAIN w1.objs |->
                                      IF w.objs[i].commits > 0
                                      THEN [w1.objs[i] EXCEPT !.aborts = @ + 1]
                                      ELSE w1.objs[i]]]
          ELSE commitLoopCompensates(w1, Tail(order), fails)

\* a loop that goes on after a delivery whose Commit failed, keeping the first error
RECURSIVE commitLoopContinues(_, _, _)
commitLoopContinues(w, order, fails) ==
  IF order = <<>> THEN w
  ELSE LET t == Head(order)
           w1 == [w EXCEPT !.objs[w.dd.deliveries[t]].commits = @ + 1]
       IN commitLoopContinues(
            IF t \in fails /\ w.err = NoErr THEN [w1 EXCEPT !.err = Err("commitErr", t)] ELSE w1,
            Tail(order), fails)

\* lines 288-296: returns at the first failure
RECURSIVE commitLoop(_, _, _)
commitLoop(w, order, fails) ==
  IF order = <<>> THEN w
  ELSE LET t == Head(order)
           w1 == [w EXCEPT !.objs[w.dd.deliveries[t]].commits = @ + 1]
       IN IF t \in fails THEN [w1 EXCEPT !.err = Err("commitErr", t)]
          ELSE commitLoop(w1, Tail(order), fails)

DCommit ==
  /\ dphase = "body_ok"
  /\ \E order \in Perms(Opened(dd)) : \E fails \in PossibleFails :
       LET w == commitLoop(Work, order, fails)
       IN /\ objs' = w.objs
          /\ dlast' = [NoCall EXCEPT !.op = "Commit", !.ret = w.err, !.order = order,
                                     !.fails = fails]
  /\ dphase' = "done"
  /\ UNCHANGED <<qvars, mvars, rvars, xvars, cfg, env, dd, quarantine, chk, startCalls, nrcpt, routed>>

(***************************************************************************)
(* dispatcherDelivery.Abort                                                *)
(***************************************************************************)
\* a loop that gives up at the first delivery whose Abort fails
RECURSIVE abortLoopStopAtError(_, _, _)
abortLoopStopAtError(w, order, fails) ==
  IF order = <<>> THEN w
  ELSE LET t == Head(order)
           w1 == [w EXCEPT !.objs[w.dd.deliveries[t]].aborts = @ + 1]
       IN IF t \in fails THEN [w1 EXCEPT !.err = Err("abortErr", t)]
          ELSE abortLoopStopAtError(w1, Tail(order), fails)

\* lines 300-310: w.err is lastErr; the loop continues after a failure
RECURSIVE abortLoop(_, _, _)
abortLoop(w, order, fails) ==
  IF order = <<>> THEN w
  ELSE LET t == Head(order)
           w1 == [w EXCEPT !.objs[w.dd.deliveries[t]].aborts = @ + 1]
       IN abortLoop(IF t \in fails THEN [w1 EXCEPT !.err = Err("abortErr", t)] ELSE w1,
                    Tail(order), fails)

\* SMTPSession.Reset and Logout abort the delivery whenever one is open
DAbort ==
  /\ dphase \in {"ready", "body_ok", "body_failed"}
  /\ \E order \in Perms(Opened(dd)) : \E fails \in PossibleFails :
       LET w == abortLoop(Work, order, fails)
       IN /\ objs' = w.objs
          /\ dlast' = [NoCall EXCEPT !.op = "Abort", !.ret = w.err, !.order = order,
                                     !.fails = fails]
  /\ dphase' = "done"
  /\ UNCHANGED <<qvars, mvars, rvars, xvars, cfg, env, dd, quarantine, chk, startCalls, nrcpt, routed>>

DNext == DStart \/ DAddRcpt \/ DBody \/ DCommit \/ DAbort

(***************************************************************************)
(* dispatcherDelivery.checkResult on its own: one call, on a delivery with *)
(* any running score and Quarantine flag, under any pair of thresholds.    *)
(***************************************************************************)
ScoreThresholds ==
  { [set |-> FALSE, val |-> 0] } \cup { [set |-> TRUE, val |-> v] : v \in {0, 5, 10} }
ScoreValues == {-5, 0, 5, 10}

SInit ==
  /\ env \in { [checks |-> TRUE, faulty |-> FALSE, trace |-> FALSE] }
  /\ cfg \in [rejectScore : ScoreThresholds, quarantineScore : ScoreThresholds]
  /\ dphase = "check"
  /\ dd \in { [NewDD EXCEPT !.checkScore = s] : s \in ScoreValues }
  /\ quarantine \in BOOLEAN
  /\ chk = NewChk
  /\ objs = <<>>
  /\ startCalls = [t \in Targets |-> 0]
  /\ nrcpt = 0
  /\ routed = [t \in Targets |-> <<>>]
  /\ dlast = NoCall

SCheckResult ==
  /\ dphase = "check"
  /\ \E r \in CheckResults :
       LET w == checkResult(Work, r)
       IN /\ dd' = w.dd
          /\ quarantine' = w.quar
          /\ dlast' = [NoCall EXCEPT !.op = "checkResult", !.ret = w.err, !.res = r]
  /\ dphase' = "checked"
  /\ UNCHANGED <<qvars, mvars, rvars, xvars, cfg, env, chk, objs, startCalls, nrcpt, routed>>

SNext == SCheckResult

(***************************************************************************)
(* The persistent retry queue. Its implementation file is not part of the  *)
(* sources at hand: its tests (queue_test.go) are. The queue is modelled   *)
(* from its specification (data model, write protocol, per-attempt flow,   *)
(* recovery) and from what the tests fix; the downstream target is the     *)
(* tests' unreliableTarget.                                                *)
(* Time is abstracted: the wheel is the set of scheduled entries and the   *)
(* worker fires any of them.                                               *)
(***************************************************************************)
\* number of recipients of the queued message
NRcpt == 2
\* Queue.maxTries as the tests (and the default) set it
maxTries == 5

QRcpts == 1..NRcpt
QIds == {"m1"}
Files == {"meta", "header", "body"}

\* what the downstream delivery.AddRcpt returns for a recipient
RcptOutcomes == {"ok", "temp", "perm"}
\* what the downstream delivery.Body returns: nil, a flat error (temporary: an
\* SMTP 4xx or network error; else permanent) or a PartialError naming
\* recipients of the delivery, none of them in both lists
BodyResults(accepted) ==
  { [kind |-> k, failed |-> {}, temp |-> {}] : k \in {"ok", "flatTemp", "flatPerm"} }
    \cup UNION { { [kind |-> "partial", failed |-> F, temp |-> T] :
                    T \in SUBSET (accepted \ F) } : F \in SUBSET accepted }
NoBody == [kind |-> "none", failed |-> {}, temp |-> {}]

NoMeta == [to |-> {}, tries |-> 0]

\* qrcpt: what AddRcpt returned for each recipient in the latest attempt ("none":
\* not offered); qbody: what Body returned in it. hist, for the latest attempt:
\* attempts (the number of attempts made so far), offered (the recipients passed
\* to AddRcpt), rcptTo (the delivery's recipient list), commits/aborts, temp (the
\* recipients that failed temporarily in it); expected: those that failed
\* temporarily in the attempt before; doneBefore: those that succeeded or
\* failed permanently in an earlier attempt; epoch: the value of qgen when the
\* attempt was made
NoHist ==
  [attempts |-> 0, offered |-> {}, rcptTo |-> {}, commits |-> 0, aborts |-> 0,
   temp |-> {}, expected |-> {}, doneBefore |-> {}, epoch |-> "first"]
NoRcptRes == [r \in QRcpts |-> "none"]
\* the recipients for which AddRcpt returned res
rejected(rcptRes, res) == { r \in QRcpts : rcptRes[r] = res }
QInit ==
  /\ qstate = "running"
  /\ qfiles = [id \in QIds |-> {}]
  /\ qmeta = [id \in QIds |-> NoMeta]
  /\ wheel = {}
  /\ hist = [id \in QIds |-> NoHist]
  /\ qrcpt = [id \in QIds |-> NoRcptRes]
  /\ qbody = [id \in QIds |-> NoBody]
  /\ qgen = "first"

(***************************************************************************)
(* Acceptance: the queue as a delivery target. Header and body files are   *)
(* written first, then the meta file is created atomically; the entry is   *)
(* then put on the wheel. The process may die between any two writes.      *)
(***************************************************************************)
\* the files on disk when the process dies at a point of the write sequence
\* (header and body are written in either order)
CrashPoints == { {}, {"header"}, {"body"}, {"header", "body"}, Files }

QAccept ==
  /\ qstate = "running"
  /\ \E id \in QIds : \E to \in (SUBSET QRcpts) \ {{}} :
       /\ qfiles[id] = {} /\ hist[id].attempts = 0
       /\ qfiles' = [qfiles EXCEPT ![id] = Files]
       /\ qmeta' = [qmeta EXCEPT ![id] = [to |-> to, tries |-> 0]]
       /\ wheel' = wheel \cup {id}
  /\ UNCHANGED <<dvars, mvars, rvars, xvars, qstate, hist, qrcpt, qbody, qgen>>

QAcceptCrash ==
  /\ qstate = "running"
  /\ \E id \in QIds : \E to \in (SUBSET QRcpts) \ {{}} : \E written \in CrashPoints :
       /\ qfiles[id] = {} /\ hist[id].attempts = 0
       /\ qfiles' = [qfiles EXCEPT ![id] = written]
       /\ qmeta' = [qmeta EXCEPT ![id] = IF "meta" \in written
                                         THEN [to |-> to, tries |-> 0] ELSE NoMeta]
  /\ qstate' = "crashed"
  /\ wheel' = {}
  /\ UNCHANGED <<dvars, mvars, rvars, xvars, hist, qrcpt, qbody, qgen>>

(***************************************************************************)
(* One delivery attempt (the wheel's callback for an entry).               *)
(***************************************************************************)
\* unreliableTargetDelivery.AddRcpt: a rejected recipient is not appended to
\* the delivery's recipient list
utdAddRcptKeepsRejected(rcptTo, rcpt, res) == rcptTo \cup {rcpt}

utdAddRcpt(rcptTo, rcpt, res) == IF res # "ok" THEN rcptTo ELSE rcptTo \cup {rcpt}

\* the recipient list of the downstream delivery after AddRcpt for each live
\* recipient
RECURSIVE addAll(_, _, _)
addAll(rcptTo, live, rcptRes) ==
  IF live = {} THEN rcptTo
  ELSE LET r == CHOOSE x \in live : \A y \in live : x <= y
       IN addAll(utdAddRcpt(rcptTo, r, rcptRes[r]), live \ {r}, rcptRes)

\* step 2 and 3 of the per-attempt flow: the recipients that stay in the entry.
\* AddRcpt: temporary -> keep for retry, permanent -> drop. Body: flat
\* permanent -> nobody stays; flat temporary -> everybody that was kept stays;
\* PartialError -> its TemporaryFailed stay; success -> nobody of the delivery
remainingKeepsFailed(live, rcptRes, body) ==
  LET accepted == { r \in live : rcptRes[r] = "ok" }
      rejTemp == { r \in live : rcptRes[r] = "temp" }
  IN CASE body.kind = "flatPerm" -> {}
       [] body.kind = "flatTemp" -> rejTemp \cup accepted
       [] body.kind = "partial" -> rejTemp \cup body.temp \cup body.failed
       [] OTHER -> rejTemp

remainingRetriesPermanent(live, rcptRes, body) ==
  LET accepted == { r \in live : rcptRes[r] = "ok" }
      rejTemp == { r \in live : rcptRes[r] = "temp" }
  IN CASE body.kind \in {"flatPerm", "flatTemp"} -> rejTemp \cup accepted
       [] body.kind = "partial" -> rejTemp \cup body.temp
       [] OTHER -> rejTemp

\* a queue that gives up the accepted recipients when Body fails temporarily
remainingDropsAcceptedOnTemp(live, rcptRes, body) ==
  LET rejTemp == { r \in live : rcptRes[r] = "temp" }
  IN CASE body.kind = "flatPerm" -> {}
       [] body.kind = "partial" -> rejTemp \cup body.temp
       [] OTHER -> rejTemp

remaining(live, rcptRes, body) ==
  LET accepted == { r \in live : rcptRes[r] = "ok" }
      rejTemp == { r \in live : rcptRes[r] = "temp" }
  IN CASE body.kind = "flatPerm" -> {}
       [] body.kind = "flatTemp" -> rejTemp \cup accepted
       [] body.kind = "partial" -> rejTemp \cup body.temp
       [] OTHER -> rejTemp

\* how the attempt ends the downstream delivery: Commit when Body succeeded for
\* at least one recipient of the delivery, else Abort (no Body call and Abort
\* when AddRcpt accepted nobody)
attemptEndAlwaysCommit(accepted, body) == "commit"

attemptEnd(accepted, body) ==
  CASE body.kind = "none" -> "abort"
    [] body.kind = "ok" -> "commit"
    [] body.kind = "partial" ->
         IF accepted \ (body.failed \cup body.temp) # {} THEN "commit" ELSE "abort"
    [] OTHER -> "abort"

\* steps 4 and 5, and the retry policy: whether the entry is rescheduled
rescheduleIgnoresMaxTries(rem, tries) == rem # {}

reschedule(rem, tries) == rem # {} /\ tries < maxTries

\* the recipients that failed temporarily in an attempt, as the target saw it
tempFailed(live, rcptRes, body) ==
  { r \in live : rcptRes[r] = "temp" } \cup
  (CASE body.kind = "flatTemp" -> { r \in live : rcptRes[r] = "ok" }
     [] body.kind = "partial" -> body.temp
     [] OTHER -> {})

\* steps 4 and 5: recipients remain and the entry may be tried again -> the
\* updated meta file is persisted and the entry stays on the wheel; else all
\* three files of the entry are deleted
finishAttemptRemovesMetaOnly(id, rem, tries) ==
  IF reschedule(rem, tries)
  THEN /\ qmeta' = [qmeta EXCEPT ![id] = [to |-> rem, tries |-> tries]]
       /\ UNCHANGED <<qfiles, wheel>>
  ELSE /\ qmeta' = [qmeta EXCEPT ![id] = NoMeta]
       /\ qfiles' = [qfiles EXCEPT ![id] = @ \ {"meta"}]
       /\ wheel' = wheel \ {id}
finishAttempt(id, rem, tries) ==
  IF reschedule(rem, tries)
  THEN /\ qmeta' = [qmeta EXCEPT ![id] = [to |-> rem, tries |-> tries]]
       /\ UNCHANGED <<qfiles, wheel>>
  ELSE /\ qmeta' = [qmeta EXCEPT ![id] = NoMeta]
       /\ qfiles' = [qfiles EXCEPT ![id] = {}]
       /\ wheel' = wheel \ {id}
tryDelivery(id, rcptRes, body) ==
  LET live == qmeta[id].to
      accepted == { r \in live : rcptRes[r] = "ok" }
      h == hist[id]
  IN /\ finishAttempt(id, remaining(live, rcptRes, body), qmeta[id].tries + 1)
     /\ hist' = [hist EXCEPT ![id] =
                   [attempts |-> h.attempts + 1,
                    offered |-> live,
                    rcptTo |-> addAll({}, live, rcptRes),
                    commits |-> IF attemptEnd(accepted, body) = "commit" THEN 1 ELSE 0,
                    aborts |-> IF attemptEnd(accepted, body) = "abort" THEN 1 ELSE 0,
                    temp |-> tempFailed(live, rcptRes, body),
                    expected |-> h.temp,
                    doneBefore |-> h.doneBefore \cup (h.offered \ h.temp),
                    epoch |-> qgen]]
QAttempt ==
  /\ qstate = "running"
  /\ \E id \in wheel :
       \E rcptRes \in { f \in [QRcpts -> RcptOutcomes \cup {"none"}] :
                          \A r \in QRcpts : f[r] = "none" <=> r \notin qmeta[id].to } :
         /\ qrcpt' = [qrcpt EXCEPT ![id] = rcptRes]
         /\ \E body \in (IF rejected(rcptRes, "ok") = {} THEN {NoBody}
                          ELSE BodyResults(rejected(rcptRes, "ok"))) :
              /\ qbody' = [qbody EXCEPT ![id] = body]
              /\ tryDelivery(id, rcptRes, body)
  /\ UNCHANGED <<dvars, mvars, rvars, xvars, qstate, qgen>>

(***************************************************************************)
(* Close, crash, and initialisation on an existing directory.              *)
(***************************************************************************)
\* a Close that discards the entries still waiting for a retry
QCloseDiscardsPending ==
  /\ qstate = "running"
  /\ qstate' = "closed"
  /\ wheel' = {}
  /\ qfiles' = [id \in QIds |-> IF id \in wheel THEN {} ELSE qfiles[id]]
  /\ qmeta' = [id \in QIds |-> IF id \in wheel THEN NoMeta ELSE qmeta[id]]
  /\ UNCHANGED <<dvars, mvars, rvars, xvars, hist, qrcpt, qbody, qgen>>

\* Queue.Close: the wheel is stopped, nothing on disk is touched
QClose ==
  /\ qstate = "running"
  /\ qstate' = "closed"
  /\ wheel' = {}
  /\ UNCHANGED <<dvars, mvars, rvars, xvars, qfiles, qmeta, hist, qrcpt, qbody, qgen>>

QCrash ==
  /\ qstate = "running"
  /\ qstate' = "crashed"
  /\ wheel' = {}
  /\ UNCHANGED <<dvars, mvars, rvars, xvars, qfiles, qmeta, hist, qrcpt, qbody, qgen>>

\* a file of a stored entry disappears while no queue runs on the directory
\* (TestQueueDelivery_DeserlizationCleanUp removes one)
QLoseFile ==
  /\ qstate \in {"closed", "crashed"}
  /\ \E id \in QIds : \E f \in Files :
       /\ qfiles[id] = Files
       /\ qfiles' = [qfiles EXCEPT ![id] = Files \ {f}]
       /\ qmeta' = [qmeta EXCEPT ![id] = IF f = "meta" THEN NoMeta ELSE @]
  /\ UNCHANGED <<dvars, mvars, rvars, xvars, qstate, wheel, hist, qrcpt, qbody, qgen>>

\* Queue.readDiskQueue: entries are found by their meta file; an entry whose
\* header or body file is missing has its remaining files removed, the others
\* are put on the wheel. Files of an ID without a meta file are not looked at
\* (sub-test NoMeta of TestQueueDelivery_DeserlizationCleanUp: "Not implemented").
readDiskQueue(files) ==
  [id \in QIds |->
     IF "meta" \in files[id] /\ files[id] # Files THEN {} ELSE files[id]]

QReinitForgetsWheel ==
  /\ qstate \in {"closed", "crashed"}
  /\ qstate' = "running"
  /\ qfiles' = readDiskQueue(qfiles)
  /\ qmeta' = [id \in QIds |-> IF "meta" \in qfiles'[id] THEN qmeta[id] ELSE NoMeta]
  /\ wheel' = {}
  /\ qgen' = "reinit"
  /\ UNCHANGED <<dvars, mvars, rvars, xvars, hist, qrcpt, qbody>>
QReinit ==
  /\ qstate \in {"closed", "crashed"}
  /\ qstate' = "running"
  /\ qfiles' = readDiskQueue(qfiles)
  /\ qmeta' = [id \in QIds |-> IF "meta" \in qfiles'[id] THEN qmeta[id] ELSE NoMeta]
  /\ wheel' = { id \in QIds : qfiles'[id] = Files }
  /\ qgen' = "reinit"
  /\ UNCHANGED <<dvars, mvars, rvars, xvars, hist, qrcpt, qbody>>

QNext == QAccept \/ QAcceptCrash \/ QAttempt \/ QClose \/ QCrash \/ QLoseFile \/ QReinit

(***************************************************************************)
(* Specifications.                                                         *)

(***************************************************************************)
(* The MTA-STS policy cache (package mtasts): one policy domain, whose     *)
(* cache file, DNS TXT records and policy host change between the calls.   *)
(***************************************************************************)
\* the last second of the clock
MaxTime == 3

\* the id= values of the TXT record, and the policies the policy host serves
DnsIds == {"id1", "id2"}
MaxAges == {1, 2}
PolicyTexts == {"p1", "p2"}
Policies == [text : PolicyTexts, maxAge : MaxAges]
\* the nil *Policy
NilPolicy == [text |-> "nil", maxAge |-> 0]

\* the cache file: absent, holding what store encoded, or not decodable
NoFile == [kind |-> "absent", id |-> "", fetchTime |-> 0, policy |-> NilPolicy]
CorruptFile == [kind |-> "corrupt", id |-> "", fetchTime |-> 0, policy |-> NilPolicy]
Entry(id, fetchTime, p) == [kind |-> "entry", id |-> id, fetchTime |-> fetchTime, policy |-> p]

\* what net.LookupTXT returns: an error (temporary or not) or the records, each
\* of which readDNSRecord accepts (giving its ID) or refuses
TxtRecords == { [valid |-> FALSE, id |-> ""] } \cup [valid : {TRUE}, id : DnsIds]
DnsResults ==
  { [err |-> "temp", records |-> <<>>], [err |-> "perm", records |-> <<>>],
    [err |-> "nil", records |-> <<>>],
    [err |-> "nil", records |-> << [valid |-> TRUE, id |-> "id1"], [valid |-> TRUE, id |-> "id1"] >>] }
    \cup { [err |-> "nil", records |-> <<r>>] : r \in TxtRecords }

\* what downloadPolicy returns, and how a call to store ends
NoDownload == [err |-> "none", policy |-> NilPolicy]
DownloadResults ==
  { [err |-> "http", policy |-> NilPolicy] } \cup { [err |-> "nil", policy |-> p] : p \in Policies }
StoreOutcomes == {"ok", "createErr", "encodeErr"}

NoCacheCall ==
  [op |-> "none", at |-> 0, pre |-> NoFile, dns |-> [err |-> "none", records |-> <<>>],
   fetched |-> FALSE, hit |-> FALSE, policy |-> NilPolicy, err |-> "nil",
   dl |-> NoDownload, st |-> "none", removed |-> FALSE]

MInit ==
  /\ mnow = 0
  /\ mfile = NoFile
  /\ mlast = NoCacheCall

\* Cache.load
load(file) ==
  IF file.kind = "absent" THEN [err |-> "notExist", id |-> "", fetchTime |-> 0, policy |-> NilPolicy]
  ELSE IF file.kind = "corrupt" THEN [err |-> "other", id |-> "", fetchTime |-> 0, policy |-> NilPolicy]
  ELSE [err |-> "nil", id |-> file.id, fetchTime |-> file.fetchTime, policy |-> file.policy]

\* Cache.store: os.Create fails (the file stays), or the file is truncated and
\* then encoded into, which may fail too
store(file, id, now, p, st) ==
  IF st = "ok" THEN Entry(id, now, p)
  ELSE IF st = "createErr" THEN file
  ELSE CorruptFile

\* line 127: fetchTime.Add(MaxAge seconds).Before(time.Now())
expired(fetchTime, maxAge, now) == fetchTime + maxAge < now

\* a fetch that downloads whatever the cache holds
needDownloadAlways(validCache, dnsId, cachedId) == TRUE

\* line 160
needDownload(validCache, dnsId, cachedId) == ~validCache \/ dnsId # cachedId

\* Cache.fetch, with the results of the calls it makes: dns of net.LookupTXT,
\* dl of downloadPolicy, st of store (dl and st are used only when it gets there)
fetch(file, now, dns, dl, st) ==
  LET ld == load(file)
      validCache == ld.err = "nil" /\ ~expired(ld.fetchTime, ld.policy.maxAge, now)
      R(hit, p, err) == [hit |-> hit, policy |-> p, err |-> err, dl |-> NoDownload,
                         st |-> "none", file |-> file]
  IN IF ld.err = "other" THEN R(FALSE, NilPolicy, "fsErr")
     ELSE IF dns.err = "perm" THEN R(FALSE, NilPolicy, "ErrNoPolicy")
     ELSE IF dns.err = "temp" THEN R(FALSE, NilPolicy, "dnsErr")
     ELSE IF Len(dns.records) # 1 \/ ~dns.records[1].valid
          THEN IF validCache THEN R(TRUE, ld.policy, "nil")
               ELSE R(FALSE, NilPolicy, "ErrNoPolicy")
     ELSE IF needDownload(validCache, dns.records[1].id, ld.id)
          THEN IF dl.err # "nil" THEN [R(FALSE, NilPolicy, "httpErr") EXCEPT !.dl = dl]
               ELSE [hit |-> FALSE,
                     policy |-> IF st # "ok" THEN ld.policy ELSE dl.policy,
                     err |-> "nil", dl |-> dl, st |-> st,
                     file |-> store(file, dns.records[1].id, now, dl.policy, st)]
     ELSE R(TRUE, ld.policy, "nil")

\* the ways one call of fetch can go: what the calls it makes return, and its result
FetchOutcomes(file, now) ==
  { [dns |-> dns, r |-> fetch(file, now, dns, dl, st)]
    : dns \in DnsResults, dl \in DownloadResults, st \in StoreOutcomes }

\* Cache.Get
MGet ==
  /\ \E o \in FetchOutcomes(mfile, mnow) :
       /\ mfile' = o.r.file
       /\ mlast' = [NoCacheCall EXCEPT !.op = "Get", !.at = mnow, !.pre = mfile, !.dns = o.dns,
                                       !.fetched = TRUE, !.hit = o.r.hit, !.policy = o.r.policy,
                                       !.err = o.r.err, !.dl = o.r.dl, !.st = o.r.st]
  /\ UNCHANGED <<dvars, qvars, rvars, xvars, mnow>>

\* a RefreshCache that removes the file after any failed fetch
shouldRemoveOnAnyError(hit, err) == ~hit /\ err # "nil"

\* line 106
shouldRemove(hit, err) == ~hit /\ err = "ErrNoPolicy"

\* Cache.RefreshCache: the directory holds the domain's file or nothing;
\* rm tells whether os.Remove is called and succeeds
MRefresh ==
  /\ IF mfile.kind = "absent"
     THEN /\ mlast' = [NoCacheCall EXCEPT !.op = "Refresh", !.at = mnow]
          /\ mfile' = mfile
     ELSE \E o \in FetchOutcomes(mfile, mnow) :
          \E rm \in IF shouldRemove(o.r.hit, o.r.err) THEN BOOLEAN ELSE {FALSE} :
            /\ mfile' = IF rm THEN NoFile ELSE o.r.file
            /\ mlast' = [NoCacheCall EXCEPT !.op = "Refresh", !.at = mnow, !.pre = mfile,
                                            !.dns = o.dns, !.fetched = TRUE, !.hit = o.r.hit,
                                            !.policy = o.r.policy, !.err = o.r.err,
                                            !.dl = o.r.dl, !.st = o.r.st, !.removed = rm]
  /\ UNCHANGED <<dvars, qvars, rvars, xvars, mnow>>

\* time passes
MTick ==
  /\ mnow < MaxTime
  /\ mnow' = mnow + 1
  /\ UNCHANGED <<dvars, qvars, rvars, xvars, mfile, mlast>>

MNext == MGet \/ MRefresh \/ MTick


(***************************************************************************)
(* Cache.store step by step, with a reader of the same file: another       *)
(* goroutine in fetch or RefreshCache, or the process started after this   *)
(* one died.                                                               *)
(***************************************************************************)
NoStore == [pc |-> "idle", id |-> "", policy |-> NilPolicy]
\* during: where store was when the file was read
NoLoad == [seen |-> FALSE, file |-> NoFile, err |-> "nil", during |-> "idle"]

XInitStore ==
  /\ storePc = NoStore
  /\ loaded = NoLoad

\* line 55: os.Create truncates the file in place (or creates it empty); when
\* it fails the file is as it was
SCreate ==
  /\ storePc.pc \in {"idle", "crashed"}
  /\ \E id \in DnsIds : \E p \in Policies : \E ok \in BOOLEAN :
       IF ok
       THEN /\ storePc' = [pc |-> "created", id |-> id, policy |-> p]
            /\ mfile' = CorruptFile
       ELSE UNCHANGED <<storePc, mfile>>
  /\ UNCHANGED <<dvars, qvars, rvars, mnow, mlast, loaded, download, pipe, dest, sqld, sdata>>

\* lines 61-65: the entry is encoded into the open file; a failed write leaves
\* what was written so far. The deferred Close follows.
SEncode ==
  /\ storePc.pc = "created"
  /\ \E ok \in BOOLEAN :
       mfile' = IF ok THEN Entry(storePc.id, mnow, storePc.policy) ELSE CorruptFile
  /\ storePc' = NoStore
  /\ UNCHANGED <<dvars, qvars, rvars, mnow, mlast, loaded, download, pipe, dest, sqld, sdata>>

\* the process dies between two steps of store (a later process stores again)
SCrash ==
  /\ storePc.pc = "created"
  /\ storePc' = [storePc EXCEPT !.pc = "crashed"]
  /\ UNCHANGED <<dvars, qvars, rvars, mnow, mfile, mlast, loaded, download, pipe, dest, sqld, sdata>>

\* Cache.load by a reader, at any moment
SLoad ==
  /\ loaded' = [seen |-> TRUE, file |-> mfile, err |-> load(mfile).err, during |-> storePc.pc]
  /\ UNCHANGED <<dvars, qvars, rvars, mvars, storePc, download, pipe, dest, sqld, sdata>>

SNextStore == SCreate \/ SEncode \/ SCrash \/ SLoad

(***************************************************************************)
(* downloadPolicy on its own. The policy host answers the request for      *)
(* https://mta-sts.<domain>/.well-known/mta-sts.txt with chain[1]; when    *)
(* that is a redirect, chain[2] is what the server named in its Location   *)
(* header answers, and so on.                                              *)
(***************************************************************************)
\* Content-Type values, as the pieces of the header string
TextPlain == <<"text/plain">>
ContentTypes == { TextPlain, <<"text/plain", "; charset=utf-8">>, <<"text/html">> }
\* status 0: the request fails (no response)
Statuses == {0, 200, 302, 404}
Responses == [status : Statuses, ctype : ContentTypes, body : PolicyTexts]
\* the longest chain of answers looked at
MaxChain == 2
Chains == UNION { [1..n -> Responses] : n \in 1..MaxChain }

\* strings.HasPrefix
HasPrefix(str, prefix) ==
  Len(str) >= Len(prefix) /\ SubSeq(str, 1, Len(prefix)) = prefix

\* net/http: the default client's limit of consecutive redirects
maxRedirects == 10

\* http.Get with http.DefaultClient: a 3xx response with a Location header is
\* followed, up to maxRedirects times; the response returned is the last one.
\* A redirect at the end of the chain has no Location header.
RECURSIVE httpGet(_, _)
httpGet(chain, i) ==
  IF chain[i].status = 0 THEN [err |-> "net", resp |-> chain[i]]
  ELSE IF chain[i].status = 302 /\ i < Len(chain)
       THEN IF i >= maxRedirects THEN [err |-> "redirects", resp |-> chain[i]]
            ELSE httpGet(chain, i + 1)
       ELSE [err |-> "nil", resp |-> chain[i]]

\* readPolicy: the body parsed (its parser is not looked into: every body is a policy)
readPolicy(body) == [err |-> "nil", policy |-> [text |-> body, maxAge |-> 1]]

\* downloadPolicy
downloadPolicy(chain) ==
  LET g == httpGet(chain, 1)
  IN IF g.err # "nil" THEN [err |-> g.err, policy |-> NilPolicy]
     ELSE IF g.resp.status # 200 THEN [err |-> "status", policy |-> NilPolicy]
     ELSE IF ~HasPrefix(g.resp.ctype, TextPlain) THEN [err |-> "ctype", policy |-> NilPolicy]
     ELSE readPolicy(g.resp.body)

NoDownloadCall == [called |-> FALSE, chain |-> <<>>, ret |-> [err |-> "nil", policy |-> NilPolicy]]
XInitDownload == download = NoDownloadCall

\* the servers' answers are fixed before the call
HInit == download \in { [NoDownloadCall EXCEPT !.chain = c] : c \in Chains }

HDownload ==
  /\ ~download.called
  /\ download' = [called |-> TRUE, chain |-> download.chain,
                  ret |-> downloadPolicy(download.chain)]
  /\ UNCHANGED <<dvars, qvars, mvars, rvars, storePc, loaded, pipe, dest, sqld, sdata>>

HNext == HDownload

(***************************************************************************)
(* The SMTP pipeline (smtp.go): passThroughPipeline and                    *)
(* destinationStep.Pass on their own.                                      *)
(***************************************************************************)
\* the longest pipeline, condition list and recipient list looked at
MaxSteps == 2
MaxConds == 2
MaxTo == 2

\* what a step's Pass returns: r (nil, or a reader of a new body), cont, err
PassResults == [r : {"nil", "new"}, cont : BOOLEAN, err : {"nil", "ErrSilentDrop", "failed"}]
\* stopStep.Pass
stopStep == [r |-> "nil", cont |-> FALSE, err |-> "nil"]
Pipelines == UNION { [1..n -> PassResults] : n \in 0..MaxSteps }

\* passThroughPipeline: ran is the sequence of the steps whose Pass was called,
\* body the step that wrote the current message body (0: the original)
\* lines 886-907
RECURSIVE pipelineLoop(_, _, _, _)
pipelineLoop(steps, i, ran, body) ==
  IF i > Len(steps) THEN [ran |-> ran, body |-> body, cont |-> TRUE, err |-> "nil"]
  ELSE LET p == steps[i]
           ran1 == Append(ran, i)
       IN IF ~p.cont /\ p.err = "ErrSilentDrop"
          THEN [ran |-> ran1, body |-> 0, cont |-> FALSE, err |-> "nil"]
          ELSE IF ~p.cont /\ p.err # "nil"
          THEN [ran |-> ran1, body |-> 0, cont |-> TRUE, err |-> p.err]
          ELSE pipelineLoop(steps, i + 1, ran1, IF p.r = "new" THEN i ELSE body)

passThroughPipeline(steps) == pipelineLoop(steps, 1, <<>>, 0)

NoPipe == [called |-> FALSE, steps |-> <<>>,
           ret |-> [ran |-> <<>>, body |-> 0, cont |-> TRUE, err |-> "nil"]]
XInitPipe == pipe = NoPipe
\* the pipeline is fixed by the configuration
PInit == pipe \in { [NoPipe EXCEPT !.steps = st] : st \in Pipelines }

PPass ==
  /\ ~pipe.called
  /\ pipe' = [pipe EXCEPT !.called = TRUE, !.ret = passThroughPipeline(pipe.steps)]
  /\ UNCHANGED <<dvars, qvars, mvars, rvars, storePc, loaded, download, dest, sqld, sdata>>

PNext == PPass

\* destinationCond: value, or a regular expression (here: one that matches
\* every address)
CondValues == { <<"d">>, <<"e">>, <<"U", "@", "D">> }
DestConds == [value : CondValues, regexp : {"nil"}] \cup { [value |-> <<>>, regexp |-> "all"] }
DestRcpts == { <<"U", "@", "D">>, <<"v", "@", "D">>, <<"v", "@", "e">> }

\* destinationCond.matches
matches(cond, addr) ==
  IF cond.regexp # "nil" THEN TRUE
  ELSE IF \E i \in 1..Len(cond.value) : cond.value[i] = "@" THEN cond.value = addr
  ELSE LET parts == SplitAt(addr)
       IN IF Len(parts) # 2 THEN FALSE
          ELSE ToLower(parts[2]) = ToLower(cond.value)

\* lines 852-861, the inner loop for one recipient: the lists after it
RECURSIVE condLoop(_, _, _, _, _)
condLoop(conds, j, rcpt, matched, unmatched) ==
  IF j > Len(conds) THEN [matched |-> matched, unmatched |-> unmatched]
  ELSE IF matches(conds[j], rcpt)
       THEN [matched |-> Append(matched, rcpt), unmatched |-> unmatched]
       ELSE condLoop(conds, j + 1, rcpt, matched, Append(unmatched, rcpt))

\* lines 852-861, the outer loop
RECURSIVE rcptLoop(_, _, _, _, _)
rcptLoop(conds, to, i, matched, unmatched) ==
  IF i > Len(to) THEN [matched |-> matched, unmatched |-> unmatched]
  ELSE LET l == condLoop(conds, 1, to[i], matched, unmatched)
       IN rcptLoop(conds, to, i + 1, l.matched, l.unmatched)

\* destinationStep.Pass: matched is ctxCpy.To, ctxTo is ctx.To when it returns
destinationPass(conds, substeps, to) ==
  LET l == rcptLoop(conds, to, 1, <<>>, <<>>)
  IN IF Len(l.matched) = 0
     THEN [matched |-> <<>>, ctxTo |-> to, sub |-> FALSE, cont |-> TRUE, err |-> "nil"]
     ELSE LET r == passThroughPipeline(substeps)
          IN [matched |-> l.matched, ctxTo |-> l.unmatched, sub |-> TRUE,
              cont |-> r.cont /\ Len(l.unmatched) # 0, err |-> r.err]

CondLists == UNION { [1..n -> DestConds] : n \in 1..MaxConds }
ToLists == UNION { [1..n -> DestRcpts] : n \in 1..MaxTo }
NoDest == [called |-> FALSE, conds |-> <<>>, substeps |-> <<>>, to |-> <<>>,
           ret |-> [matched |-> <<>>, ctxTo |-> <<>>, sub |-> FALSE, cont |-> TRUE, err |-> "nil"]]
XInitDest == dest = NoDest
\* the step is fixed by the configuration, ctx.To by the session
GInit ==
  dest \in { [NoDest EXCEPT !.conds = c, !.to = t, !.substeps = ss]
             : c \in CondLists, t \in ToLists, ss \in { <<>>, <<stopStep>> } }

GPass ==
  /\ ~dest.called
  /\ dest' = [dest EXCEPT !.called = TRUE,
                          !.ret = destinationPass(dest.conds, dest.substeps, dest.to)]
  /\ UNCHANGED <<dvars, qvars, mvars, rvars, storePc, loaded, download, pipe, sqld, sdata>>

GNext == GPass

(***************************************************************************)
(* SQLStorage.Deliver (sql.go) on its own. The message is a sequence of    *)
(* bytes; a mailbox stores what CreateMessage reads from the literal it    *)
(* is given, up to the end of the reader.                                  *)
(***************************************************************************)
\* the longest message body looked at
MaxBody == 2
Bytes == {"a", "b"}
Bodies == UNION { [1..n -> Bytes] : n \in 0..MaxBody }
SqlRcpts == DestRcpts \cup { <<"v">> }
SqlToLists == UNION { [1..n -> SqlRcpts] : n \in 1..MaxTo }
\* the mailbox names GetUser may not know
UnknownUsers == { {}, { <<"v">> } }

\* lines 159-160: the Return-Path and Delivered-To lines (the sender is fixed)
headerPrefix(rcpt) == <<"Return-Path: <S@D>", "Delivered-To: ">> \o rcpt

\* lines 120-170, the loop from recipient i on: buf is what is left to read in
\* the bytes.Buffer, stored the messages created so far as [rcpt, length : the
\* Literal's Len(), bytes : what the Literal's Reader yields]
RECURSIVE deliverLoop(_, _, _, _, _)
deliverLoop(to, i, buf, unknown, stored) ==
  IF i > Len(to) THEN [err |-> "nil", stored |-> stored]
  ELSE LET parts == SplitAt(to[i])
       IN IF Len(parts) # 2 THEN [err |-> "missing domain part", stored |-> stored]
          ELSE IF parts[1] \in unknown THEN [err |-> "550", stored |-> stored]
          ELSE LET msg == [rcpt |-> to[i],
                           length |-> Len(headerPrefix(to[i])) + Len(buf),
                           bytes |-> headerPrefix(to[i]) \o buf]
               IN deliverLoop(to, i + 1, <<>>, unknown, Append(stored, msg))

\* SQLStorage.Deliver
Deliver(to, body, unknown) == deliverLoop(to, 1, body, unknown, <<>>)

NoDeliver == [called |-> FALSE, to |-> <<>>, body |-> <<>>, unknown |-> {},
              ret |-> [err |-> "nil", stored |-> <<>>]]
XInitSql == sqld = NoDeliver
LInit ==
  sqld \in { [NoDeliver EXCEPT !.to = t, !.body = b, !.unknown = u]
             : t \in SqlToLists, b \in Bodies, u \in UnknownUsers }

LDeliver ==
  /\ ~sqld.called
  /\ sqld' = [sqld EXCEPT !.called = TRUE, !.ret = Deliver(sqld.to, sqld.body, sqld.unknown)]
  /\ UNCHANGED <<dvars, qvars, mvars, rvars, storePc, loaded, download, pipe, dest, sdata>>

LNext == LDeliver

(***************************************************************************)
(* SMTPSession.Data (smtp.go) on its own, given what the calls it makes    *)
(* return.                                                                 *)
(***************************************************************************)
CallResults == {"nil", "err"}
DataInputs ==
  [header : CallResults, submission : BOOLEAN, prepare : CallResults, buffer : CallResults,
   body : CallResults, commit : CallResults]

\* SMTPSession.Data: what it returns to the client, the calls it made on the
\* delivery, and whether s.delivery was reset
Data(in) ==
  LET R(err, body, commit, reset) ==
        [err |-> err, bodyCalled |-> body, commitCalled |-> commit, reset |-> reset]
  IN IF in.header = "err" THEN R("header", FALSE, FALSE, FALSE)
     ELSE IF in.submission /\ in.prepare = "err" THEN R("prepare", FALSE, FALSE, FALSE)
     ELSE IF in.buffer = "err" THEN R("buffer", FALSE, FALSE, FALSE)
     ELSE IF in.body = "err" THEN R("body", TRUE, FALSE, FALSE)
     ELSE R("nil", TRUE, TRUE, TRUE)

NoData == [called |-> FALSE,
           in |-> [header |-> "nil", submission |-> FALSE, prepare |-> "nil", buffer |-> "nil",
                   body |-> "nil", commit |-> "nil"],
           ret |-> [err |-> "nil", bodyCalled |-> FALSE, commitCalled |-> FALSE, reset |-> FALSE]]
XInitData == sdata = NoData
AInit == sdata \in { [NoData EXCEPT !.in = i] : i \in DataInputs }

AData ==
  /\ ~sdata.called
  /\ sdata' = [sdata EXCEPT !.called = TRUE, !.ret = Data(sdata.in)]
  /\ UNCHANGED <<dvars, qvars, mvars, rvars, storePc, loaded, download, pipe, dest, sqld>>

ANext == AData

XInit == XInitStore /\ XInitDownload /\ XInitPipe /\ XInitDest /\ XInitSql /\ XInitData

(***************************************************************************)
(* The module registry (package module): goroutines call Register,         *)
(* RegisterInstance, GetMod and GetInstance concurrently; every call is a  *)
(* sequence of steps, and the steps of different goroutines interleave.    *)
(***************************************************************************)
Goroutines == {"g1", "g2"}
RegNames == {"a", "b"}
RegOps == {"Register", "RegisterInstance", "GetMod", "GetInstance"}

\* what a call returned: nothing yet, normally (with the value, for a Get), or by a panic
NoRet == [kind |-> "none", val |-> Nil]
\* afterInit: the call in progress was made after the program's initialisation had ended
Idle == [op |-> "none", name |-> Nil, pc |-> "idle", ret |-> NoRet, afterInit |-> FALSE]
FreeLock == [w |-> Nil, r |-> {}]

RInit ==
  /\ modules = [n \in RegNames |-> Nil]
  /\ modulesLck = FreeLock
  /\ ModuleDirectives = <<>>
  /\ instances = [n \in RegNames |-> Nil]
  /\ instancesLck = FreeLock
  /\ rpc = [g \in Goroutines |-> Idle]
  /\ initDone = FALSE

\* the calls on the modules map and those on the instances map
OnModules(op) == op \in {"Register", "GetMod"}
IsRegister(op) == op \in {"Register", "RegisterInstance"}

\* a Lock that does not wait for anybody
canLockAlways(lck) == TRUE

\* sync.RWMutex: Lock waits until nobody holds the mutex, RLock until no writer does
canLock(lck) == lck.w = Nil /\ lck.r = {}
canRLock(lck) == lck.w = Nil

\* a goroutine enters one of the four functions; the value it registers is its own
RCall(g) ==
  /\ rpc[g].pc = "idle"
  /\ \E op \in RegOps : \E n \in RegNames :
       rpc' = [rpc EXCEPT ![g] = [op |-> op, name |-> n, pc |-> "lock", ret |-> NoRet,
                                  afterInit |-> initDone]]
  /\ UNCHANGED <<dvars, qvars, mvars, xvars, initDone, modules, modulesLck, ModuleDirectives, instances,
                 instancesLck>>

\* lines 593, 609, 625, 639: Lock or RLock, once the mutex allows it
RLock(g) ==
  /\ rpc[g].pc = "lock"
  /\ LET lck == IF OnModules(rpc[g].op) THEN modulesLck ELSE instancesLck
         got == IF IsRegister(rpc[g].op) THEN [lck EXCEPT !.w = g]
                ELSE [lck EXCEPT !.r = @ \cup {g}]
     IN /\ IF IsRegister(rpc[g].op) THEN canLock(lck) ELSE canRLock(lck)
        /\ modulesLck' = IF OnModules(rpc[g].op) THEN got ELSE modulesLck
        /\ instancesLck' = IF OnModules(rpc[g].op) THEN instancesLck ELSE got
  /\ rpc' = [rpc EXCEPT ![g].pc = IF IsRegister(rpc[g].op) THEN "check" ELSE "read"]
  /\ UNCHANGED <<dvars, qvars, mvars, xvars, initDone, modules, ModuleDirectives, instances>>

\* lines 596-598, 628-630: the name is taken: panic, and the deferred Unlock runs
RCheck(g) ==
  /\ rpc[g].pc = "check"
  /\ LET reg == IF OnModules(rpc[g].op) THEN modules ELSE instances
     IN IF reg[rpc[g].name] # Nil
        THEN /\ rpc' = [rpc EXCEPT ![g].pc = "idle", ![g].ret = [kind |-> "panic", val |-> Nil],
                                   ![g].afterInit = FALSE]
             /\ modulesLck' = IF OnModules(rpc[g].op) THEN [modulesLck EXCEPT !.w = Nil]
                              ELSE modulesLck
             /\ instancesLck' = IF OnModules(rpc[g].op) THEN instancesLck
                                ELSE [instancesLck EXCEPT !.w = Nil]
        ELSE /\ rpc' = [rpc EXCEPT ![g].pc = "write"]
             /\ UNCHANGED <<modulesLck, instancesLck>>
  /\ UNCHANGED <<dvars, qvars, mvars, xvars, initDone, modules, ModuleDirectives, instances>>

\* lines 600-602, 632
RWrite(g) ==
  /\ rpc[g].pc = "write"
  /\ IF OnModules(rpc[g].op)
     THEN /\ ModuleDirectives' = Append(ModuleDirectives, rpc[g].name)
          /\ modules' = [modules EXCEPT ![rpc[g].name] = g]
          /\ UNCHANGED instances
     ELSE /\ instances' = [instances EXCEPT ![rpc[g].name] = g]
          /\ UNCHANGED <<modules, ModuleDirectives>>
  /\ rpc' = [rpc EXCEPT ![g].pc = "unlock", ![g].ret = [kind |-> "ok", val |-> Nil]]
  /\ UNCHANGED <<dvars, qvars, mvars, xvars, initDone, modulesLck, instancesLck>>

\* lines 612, 642: the map is read under RLock
RRead(g) ==
  /\ rpc[g].pc = "read"
  /\ LET reg == IF OnModules(rpc[g].op) THEN modules ELSE instances
     IN rpc' = [rpc EXCEPT ![g].pc = "unlock",
                           ![g].ret = [kind |-> "ok", val |-> reg[rpc[g].name]]]
  /\ UNCHANGED <<dvars, qvars, mvars, xvars, initDone, modules, modulesLck, ModuleDirectives, instances,
                 instancesLck>>

\* the deferred Unlock or RUnlock of a call that returns normally
RUnlock(g) ==
  /\ rpc[g].pc = "unlock"
  /\ LET lck == IF OnModules(rpc[g].op) THEN modulesLck ELSE instancesLck
         rel == IF IsRegister(rpc[g].op) THEN [lck EXCEPT !.w = Nil]
                ELSE [lck EXCEPT !.r = @ \ {g}]
     IN /\ modulesLck' = IF OnModules(rpc[g].op) THEN rel ELSE modulesLck
        /\ instancesLck' = IF OnModules(rpc[g].op) THEN instancesLck ELSE rel
  /\ rpc' = [rpc EXCEPT ![g].pc = "idle", ![g].afterInit = FALSE]
  /\ UNCHANGED <<dvars, qvars, mvars, xvars, initDone, modules, ModuleDirectives, instances>>

\* the program's initialisation ends; nothing in package module takes note of it
RInitDone ==
  /\ ~initDone
  /\ initDone' = TRUE
  /\ UNCHANGED <<dvars, qvars, mvars, xvars, modules, modulesLck, ModuleDirectives, instances,
                 instancesLck, rpc>>

RCallStep == \E g \in Goroutines : RCall(g)
RLockStep == \E g \in Goroutines : RLock(g)
RCheckStep == \E g \in Goroutines : RCheck(g)
RWriteStep == \E g \in Goroutines : RWrite(g)
RReadStep == \E g \in Goroutines : RRead(g)
RUnlockStep == \E g \in Goroutines : RUnlock(g)

RNext == RCallStep \/ RLockStep \/ RCheckStep \/ RWriteStep \/ RReadStep \/ RUnlockStep

\* the registry calls made during and after the program's initialisation
RNextAfterInit ==
  RCallStep \/ RLockStep \/ RCheckStep \/ RWriteStep \/ RReadStep \/ RUnlockStep \/ RInitDone

(***************************************************************************)
\* checks configured, targets that do not fail
EnvChecks == { [checks |-> TRUE, faulty |-> FALSE, trace |-> FALSE] }
\* no checks configured, targets that may fail
EnvFaulty == { [checks |-> FALSE, faulty |-> TRUE, trace |-> FALSE] }
EnvBoth == { [checks |-> TRUE, faulty |-> TRUE, trace |-> FALSE] }
\* checks configured and their hooks recorded, targets that do not fail
EnvHooks == { [checks |-> TRUE, faulty |-> FALSE, trace |-> TRUE] }

\* the dispatcher handling one message
InitChecks == DInitFor(EnvChecks) /\ QInit /\ MInit /\ RInit /\ XInit
InitTargets == DInitFor(EnvFaulty) /\ QInit /\ MInit /\ RInit /\ XInit
InitBoth == DInitFor(EnvBoth) /\ QInit /\ MInit /\ RInit /\ XInit
SpecChecks == InitChecks /\ [][DNext]_vars
SpecTargets == InitTargets /\ [][DNext]_vars
SpecBoth == InitBoth /\ [][DNext]_vars
InitHooks == DInitFor(EnvHooks) /\ QInit /\ MInit /\ RInit /\ XInit
SpecHooks == InitHooks /\ [][DNext]_vars
\* Cache.store and its readers
InitStore == DInitFor(EnvFaulty) /\ QInit /\ MInit /\ RInit /\ XInit
SpecStore == InitStore /\ [][SNextStore]_vars
\* downloadPolicy alone
InitDownload ==
  DInitFor(EnvFaulty) /\ QInit /\ MInit /\ RInit /\ XInitStore /\ HInit /\ XInitPipe /\ XInitDest
  /\ XInitSql /\ XInitData
\* passThroughPipeline alone
InitPipeline ==
  DInitFor(EnvFaulty) /\ QInit /\ MInit /\ RInit /\ XInitStore /\ XInitDownload /\ PInit /\ XInitDest
  /\ XInitSql /\ XInitData
SpecPipeline == InitPipeline /\ [][PNext]_vars
\* destinationStep.Pass alone
InitDestination ==
  DInitFor(EnvFaulty) /\ QInit /\ MInit /\ RInit /\ XInitStore /\ XInitDownload /\ XInitPipe /\ GInit
  /\ XInitSql /\ XInitData
SpecDestination == InitDestination /\ [][GNext]_vars
SpecDownload == InitDownload /\ [][HNext]_vars
\* SQLStorage.Deliver alone
InitDeliver ==
  DInitFor(EnvFaulty) /\ QInit /\ MInit /\ RInit /\ XInitStore /\ XInitDownload /\ XInitPipe /\ XInitDest
  /\ LInit /\ XInitData
SpecDeliver == InitDeliver /\ [][LNext]_vars
\* SMTPSession.Data alone
InitData ==
  DInitFor(EnvFaulty) /\ QInit /\ MInit /\ RInit /\ XInitStore /\ XInitDownload /\ XInitPipe /\ XInitDest
  /\ XInitSql /\ AInit
SpecData == InitData /\ [][ANext]_vars
\* the module registry
InitRegistry == DInitFor(EnvFaulty) /\ QInit /\ MInit /\ RInit /\ XInit
SpecRegistry == InitRegistry /\ [][RNext]_vars
SpecRegistryAfterInit == InitRegistry /\ [][RNextAfterInit]_vars
\* checkResult alone
InitScore == SInit /\ QInit /\ MInit /\ RInit /\ XInit
SpecScore == InitScore /\ [][SNext]_vars

\* the queue, its worker and its directory
InitQueue == DInitFor(EnvFaulty) /\ QInit /\ MInit /\ RInit /\ XInit
SpecQueue == InitQueue /\ [][QNext]_vars
\* the worker fires the callback of an entry on the wheel when its time has come
\* (retry delays are finite), for as long as the queue runs
SpecQueueFair == InitQueue /\ [][QNext]_vars /\ WF_vars(QAttempt)

\* the policy cache
InitCache == DInitFor(EnvFaulty) /\ QInit /\ MInit /\ RInit /\ XInit
SpecCache == InitCache /\ [][MNext]_vars

(***************************************************************************)
(* Properties of the dispatcher's fan-out to delivery targets.             *)
(***************************************************************************)
\* the delivery objects a target has returned, and the recipients one was given
ObjsOf(t) == { i \in 1..Len(objs) : objs[i].target = t }
CallsTo(i) == [j \in 1..Len(objs[i].calls) |-> objs[i].calls[j].to]

\* C1, as stated: for one message, target.Start is called at most once per
\* target, and every recipient routed to a target is passed to that single
\* delivery object.
C1_StartCalledAtMostOnce ==
  \A t \in Targets :
    /\ startCalls[t] <= 1
    /\ routed[t] # <<>> => \E i \in ObjsOf(t) : ObjsOf(t) = {i} /\ CallsTo(i) = routed[t]

\* C1, amended: for one message, target.Start returns a delivery at most once
\* per target (a Start call that failed is repeated by a later AddRcpt), and
\* every recipient routed to a target is passed to AddRcpt of that single
\* delivery object, in the order of routing.
C1_OneDeliveryPerTarget ==
  \A t \in Targets :
    /\ Cardinality(ObjsOf(t)) <= 1
    /\ Cardinality(ObjsOf(t)) <= startCalls[t]
    /\ routed[t] # <<>> => \E i \in ObjsOf(t) : ObjsOf(t) = {i} /\ CallsTo(i) = routed[t]

\* two recipients of different recipient blocks were routed to one target whose
\* first Start call had failed
C1_Witness ==
  \E t \in Targets :
    /\ startCalls[t] >= 2
    /\ Len(routed[t]) >= 2
    /\ resolveRcpt(dd.sourceBlock, routed[t][1]).block
         # resolveRcpt(dd.sourceBlock, routed[t][2]).block

(***************************************************************************)
(* Properties of block selection and address validation.                   *)
(***************************************************************************)
\* the part of an address after its first "@" (empty when it has none)
domainOf(a) ==
  LET ats == { k \in 1..Len(a) : a[k] = "@" }
  IN IF ats = {} THEN <<>>
     ELSE SubSeq(a, (CHOOSE k \in ats : \A j \in ats : k <= j) + 1, Len(a))
\* the block the resolution order names: keyed by the exact lowercased address,
\* else keyed by the lowercased domain, else the default block
expectedBlock(blocks, default, a) ==
  IF ToLower(a) \in DOMAIN blocks THEN blocks[ToLower(a)]
  ELSE IF domainOf(ToLower(a)) \in DOMAIN blocks THEN blocks[domainOf(ToLower(a))]
       ELSE default
\* the step is an AddRcpt call
AddRcptStep == nrcpt' = nrcpt + 1

\* C12: an accepted message has the source block the resolution order names
\* for its sender; an accepted recipient is handled by exactly the recipient
\* block the resolution order names inside that source block: that block's
\* check state is in use and its targets, and no other, are passed the recipient.
C12_ExactlyOneBlockSelected ==
  [][/\ dphase' \in {"ready", "body_ok", "body_failed", "done"} =>
          dd'.sourceBlock = expectedBlock(perSource, defaultSource, dd'.sourceAddr)
     /\ (AddRcptStep /\ dlast'.ret = NoErr) =>
          LET b == expectedBlock(perRcpt(dd.sourceBlock), defaultRcpt(dd.sourceBlock),
                                 dlast'.arg)
          IN /\ dd'.rcptChecksState = dd.rcptChecksState \cup {b}
             /\ \A t \in Targets :
                  routed'[t] = IF t \in Range(blockTargets(b))
                               THEN Append(routed[t], dlast'.arg) ELSE routed[t]]_vars
\* a sender matched by its domain; a recipient in upper case accepted through
\* the block keyed by its lowercased address, and one through the default block
C12_Witness ==
  /\ dd.sourceBlock = "srcDom"
  /\ dlast.op = "AddRcpt" /\ dlast.ret = NoErr /\ dlast.arg = <<"v", "@", "e">>
  /\ routed["t1"] = << <<"U", "@", "D">> >>
  /\ routed["t2"] = << <<"v", "@", "e">> >>
  /\ dd.rcptChecksState = {"rbAddr", "rbDef"}

\* an address the rules call malformed: not the sole token postmaster, and not
\* exactly one "@" with a non-empty mailbox before and a non-empty domain after
Malformed(a) ==
  /\ ~(Len(a) = 1 /\ a[1] \in {"pm", "PM"})
  /\ \/ Cardinality({ k \in 1..Len(a) : a[k] = "@" }) # 1
     \/ a[1] = "@"
     \/ a[Len(a)] = "@"

\* C15: a malformed sender passed to Start and a malformed recipient passed to
\* AddRcpt are rejected with SMTP error 501 5.1.3, and an address that is not
\* malformed is never rejected with that error.
C15_MalformedIffRejected501 ==
  dlast.op \in {"Start", "AddRcpt"} =>
    (Malformed(dlast.arg) <=> dlast.ret.kind = "501 5.1.3")

\* the position in the order of the calls of the first delivery whose call
\* fails (0: none does)
firstFailing(order, fails) ==
  LET idx == { k \in 1..Len(order) : order[k] \in fails }
  IN IF idx = {} THEN 0 ELSE CHOOSE k \in idx : \A j \in idx : k <= j
\* the number of Commit calls the delivery of target t has received
commitsOf(t) == objs[dd.deliveries[t]].commits

\* C11, as stated: after Commit on the dispatcher delivery has returned, every
\* opened delivery that did not return an error has had Commit called exactly
\* once.
C11_EveryOtherDeliveryCommitted ==
  dlast.op = "Commit" =>
    \A t \in Opened(dd) : dlast.ret # Err("commitErr", t) => commitsOf(t) = 1
\* C11, amended: after Commit has returned nil every opened delivery has had
\* Commit called exactly once; after it has returned an error, that error is
\* the one of the first delivery, in the order of the calls, whose Commit
\* failed, the deliveries up to and including that one have had Commit called
\* exactly once and the deliveries past it have not had Commit called.
C11_CommitStopsAtFirstFailure ==
  dlast.op = "Commit" =>
    LET f == firstFailing(dlast.order, dlast.fails)
    IN /\ Range(dlast.order) = Opened(dd)
       /\ f = 0 => (dlast.ret = NoErr /\ \A t \in Opened(dd) : commitsOf(t) = 1)
       /\ f # 0 =>
            /\ dlast.ret = Err("commitErr", dlast.order[f])
            /\ \A k \in 1..Len(dlast.order) :
                 commitsOf(dlast.order[k]) = IF k <= f THEN 1 ELSE 0
\* two deliveries were open and Commit of the first one called failed
C11_Witness ==
  /\ dlast.op = "Commit"
  /\ Len(dlast.order) = 2
  /\ dlast.order[1] \in dlast.fails
  /\ commitsOf(dlast.order[2]) = 0

\* C13 as stated: the running check score of a delivery never decreases from
\* one state to the next.
C13_ScoreNeverDecreases ==
  [][dd'.checkScore >= dd.checkScore]_vars

\* C13, amended: every dispatcher call that leaves a delivery changes the
\* running score by exactly the sum of the ScoreAdjust values of the check
\* results the call processed (a signed sum: the score goes down when a check
\* returns a negative ScoreAdjust, and only then).
C13_ScoreFollowsAdjustments ==
  [][dphase' # "start_failed" => dd'.checkScore = dd.checkScore + dlast'.adj]_vars

\* a call whose checks lowered the score below zero
C13_Witness ==
  /\ dlast.op = "Body"
  /\ dlast.ret = NoErr
  /\ dlast.adj < 0
  /\ dd.checkScore < 0

\* C14: once msgMeta.Quarantine is true no later step of the delivery sets it
\* back to false.
C14_QuarantineIsSticky ==
  [][quarantine => quarantine']_vars

\* the flag stays set after the score fell back below the quarantine threshold
C14_Witness ==
  /\ quarantine
  /\ cfg.quarantineScore.set
  /\ dd.checkScore < cfg.quarantineScore.val
  /\ dlast.op = "Body"
  /\ dlast.adj < 0
  /\ dphase = "body_ok"

\* C16: a recipient rejected by AddRcpt aborts only that call: the AddRcpt call
\* that follows a rejected one is not refused for the score when its own checks
\* did not raise the score (the recipient is acceptable to them).
C16_RejectionAbortsOnlyThatCall ==
  [][(/\ dlast.op = "AddRcpt" /\ dlast.ret # NoErr
      /\ AddRcptStep
      /\ dlast'.adj <= 0)
     => dlast'.ret.kind # "550 5.7.0"]_vars

\* the call met exactly one TXT record, syntactically valid
OneValidRecord(c) ==
  c.dns.err = "nil" /\ Len(c.dns.records) = 1 /\ c.dns.records[1].valid

\* the call met a cached entry that FetchTime + MaxAge puts later than the
\* time of the call
UnexpiredEntry(c) ==
  c.pre.kind = "entry" /\ c.pre.fetchTime + c.pre.policy.maxAge > c.at

\* C17: with a valid TXT record whose ID equals the cached ID and a cached
\* entry whose FetchTime + MaxAge is later than now, Get returns the cached
\* policy as a cache hit, makes no HTTP request and does not write the file.
C17_CacheHitNoHttpNoWrite ==
  (/\ mlast.op = "Get"
   /\ OneValidRecord(mlast)
   /\ UnexpiredEntry(mlast)
   /\ mlast.dns.records[1].id = mlast.pre.id)
  => /\ mlast.hit
     /\ mlast.err = "nil"
     /\ mlast.policy = mlast.pre.policy
     /\ mlast.dl = NoDownload
     /\ mlast.st = "none"
     /\ mfile = mlast.pre

\* a hit on an entry fetched at an earlier second
C17_Witness ==
  /\ mlast.op = "Get"
  /\ OneValidRecord(mlast)
  /\ UnexpiredEntry(mlast)
  /\ mlast.dns.records[1].id = mlast.pre.id
  /\ mlast.at > mlast.pre.fetchTime
  /\ mlast.hit

\* C18: whenever fetch downloaded a policy over HTTPS, the policy Get returns
\* is the downloaded one, also when writing the cache file failed.
C18_DownloadedPolicyReturned ==
  (mlast.op = "Get" /\ mlast.dl.err = "nil")
  => (mlast.err = "nil" /\ mlast.policy = mlast.dl.policy)

\* C19: when the TXT lookup does not yield exactly one valid record (no such
\* record, several records, or a record that does not parse), Get returns the
\* cached policy if the cached copy exists and is unexpired and reports
\* ErrNoPolicy otherwise, without an HTTP request.
C19_NoValidRecordUsesCache ==
  (/\ mlast.op = "Get"
   /\ mlast.pre.kind # "corrupt"
   /\ mlast.dns.err # "temp"
   /\ ~OneValidRecord(mlast))
  => /\ mlast.dl = NoDownload
     /\ IF UnexpiredEntry(mlast)
        THEN mlast.err = "nil" /\ mlast.policy = mlast.pre.policy
        ELSE mlast.err = "ErrNoPolicy"

\* C20: RefreshCache removes the cache file only when the fetch was not a cache
\* hit and reported ErrNoPolicy; after a fetch that succeeded or failed with
\* another error the file is still there.
C20_RemovedOnlyOnNoPolicy ==
  (mlast.op = "Refresh" /\ mlast.fetched)
  => /\ mlast.removed => (~mlast.hit /\ mlast.err = "ErrNoPolicy")
     /\ ~(~mlast.hit /\ mlast.err = "ErrNoPolicy") => (~mlast.removed /\ mfile.kind # "absent")

\* a cached entry removed by RefreshCache
C20_Witness ==
  /\ mlast.op = "Refresh"
  /\ mlast.removed
  /\ mlast.pre.kind = "entry"
  /\ mfile = NoFile

\* Body ran two body checks that returned ScoreAdjust = 5 each, on a message
\* whose score was 0, with rejectScore = 10
TwoBodyChecksReachRejectScore ==
  /\ cfg.rejectScore = [set |-> TRUE, val |-> 10]
  /\ dlast.op = "Body"
  /\ dlast.hooks = << <<"global", "Body">>, <<"source", "Body">> >>
  /\ dlast.adj = 10
  /\ dd.checkScore = 10

\* C22 as stated: the second body check makes Body fail with 550 5.7.0 and no
\* delivery has been created for the message.
C22_NoDeliveryCreated ==
  TwoBodyChecksReachRejectScore => (dlast.ret.kind = "550 5.7.0" /\ objs = <<>>)

\* C22, amended: the second body check makes Body fail with 550 5.7.0 and
\* neither Body nor Commit is called on any delivery (the deliveries that
\* AddRcpt opened exist and stay open).
C22_NothingDelivered ==
  TwoBodyChecksReachRejectScore =>
    /\ dlast.ret = Err("550 5.7.0", "score")
    /\ dphase = "body_failed"
    /\ \A i \in 1..Len(objs) : objs[i].bodies = 0 /\ objs[i].commits = 0

C22_Witness ==
  /\ TwoBodyChecksReachRejectScore
  /\ Len(objs) = 2
  /\ Cardinality(dd.rcptChecksState) = 2

\* C23: when Start fails after the global check state was opened, every check
\* state opened so far has been closed when Start returns, the last opened
\* (the source-block state, if it was opened) first.
C23_FailedStartClosesStates ==
  (dlast.op = "Start" /\ dlast.ret # NoErr /\ chk.global # "none")
  => /\ chk.global = "closed"
     /\ chk.source # "open"
     /\ chk.closeOrder = IF chk.source = "closed" THEN <<"source", "global">> ELSE <<"global">>

\* C24: after Abort on the dispatcher delivery, the global check state, the
\* source-block check state and every recipient-block check state created for
\* the message have been closed.
C24_AbortClosesCheckStates ==
  dlast.op = "Abort"
  => /\ chk.global = "closed"
     /\ chk.source = "closed"
     /\ \A b \in RcptBlocks : chk.rcptClosed[b] = chk.rcptCreated[b]

\* C25: Commit stops at the first delivery whose Commit fails: it returns that
\* delivery's error, calls Commit on no delivery after it, and calls nothing
\* else (no Abort, no Body, no AddRcpt) on any delivery, committed or not.
C25_CommitFirstErrorNoCompensation ==
  [][(dphase = "body_ok" /\ dlast'.op = "Commit"
      /\ firstFailing(dlast'.order, dlast'.fails) # 0)
     => LET f == firstFailing(dlast'.order, dlast'.fails)
            obj(k) == dd.deliveries[dlast'.order[k]]
        IN /\ dlast'.ret = Err("commitErr", dlast'.order[f])
           /\ \A k \in 1..Len(dlast'.order) :
                objs'[obj(k)].commits = objs[obj(k)].commits + (IF k <= f THEN 1 ELSE 0)
           /\ Len(objs') = Len(objs)
           /\ \A i \in 1..Len(objs) :
                /\ objs'[i].aborts = objs[i].aborts
                /\ objs'[i].bodies = objs[i].bodies
                /\ objs'[i].calls = objs[i].calls]_vars

\* the second of two deliveries failed to commit; the first stays committed
C25_Witness ==
  /\ dlast.op = "Commit"
  /\ Len(dlast.order) = 2
  /\ dlast.fails = {dlast.order[2]}
  /\ dlast.ret = Err("commitErr", dlast.order[2])
  /\ commitsOf(dlast.order[1]) = 1
  /\ objs[dd.deliveries[dlast.order[1]]].aborts = 0

\* a is the beginning of b
IsPrefix(a, b) == Len(a) <= Len(b) /\ \A k \in 1..Len(a) : a[k] = b[k]

\* the hooks a call has to run, in order; a call that fails has run a beginning
\* of them, a call that succeeds all of them
HooksAsOrdered(call, expected) ==
  /\ IsPrefix(call.hooks, expected)
  /\ call.ret = NoErr => call.hooks = expected

\* C26: the check hooks of one message run in the order global CheckConnection,
\* global CheckSender, source CheckConnection, source CheckSender (Start); per
\* recipient block CheckConnection and CheckSender on first use, then CheckRcpt
\* (AddRcpt); global CheckBody, source CheckBody, then CheckBody of the
\* recipient blocks in the order in which they were first used (Body).
C26_HookOrder ==
  [][/\ (dphase = "init" /\ dphase' # "init" /\ dlast'.ret.kind # "newMessage")
        => HooksAsOrdered(dlast', << <<"global", "Connection">>, <<"global", "Sender">>,
                                     <<"source", "Connection">>, <<"source", "Sender">> >>)
     /\ (AddRcptStep /\ dlast'.ret.kind # "newMessage")
        => LET b == expectedBlock(perRcpt(dd.sourceBlock), defaultRcpt(dd.sourceBlock), dlast'.arg)
           IN HooksAsOrdered(dlast',
                (IF b \in dd.rcptChecksState THEN <<>>
                 ELSE << <<b, "Connection">>, <<b, "Sender">> >>) \o << <<b, "Rcpt">> >>)
     /\ (dphase = "ready" /\ dphase' \in {"body_ok", "body_failed"})
        => HooksAsOrdered(dlast',
             << <<"global", "Body">>, <<"source", "Body">> >>
               \o [k \in 1..Len(chk.rcptOrder) |-> <<chk.rcptOrder[k], "Body">>])]_vars

\* C27: for one message at most one check state is created per recipient
\* block, by the first AddRcpt that resolves to the block; later recipients of
\* the block reuse it.
C27_OneCheckStatePerRcptBlock ==
  \A b \in RcptBlocks : chk.rcptCreated[b] <= 1

\* no delivery target was started or otherwise touched by the step
TargetsUntouched ==
  /\ objs' = objs
  /\ startCalls' = startCalls
  /\ routed' = routed

\* C29: when the block matched for the sender (the recipient) has a reject
\* error, Start (AddRcpt) fails with exactly that error, the check state of
\* that block is not created and none of its checks runs, and no delivery
\* target is started or touched.
C29_BlockRejectErr ==
  [][/\ (/\ dphase = "init" /\ dphase' # "init"
         /\ ~Malformed(dlast'.arg)
         /\ expectedBlock(perSource, defaultSource, dlast'.arg) = "srcRej")
        => /\ dlast'.ret = [kind |-> "blockReject", at |-> "srcRej"]
           /\ chk'.source = "none"
           /\ dd'.sourceBlock = Nil
           /\ TargetsUntouched
     /\ (/\ AddRcptStep
         /\ ~Malformed(dlast'.arg)
         /\ expectedBlock(perRcpt(dd.sourceBlock), defaultRcpt(dd.sourceBlock), dlast'.arg)
              = "rbRej")
        => /\ dlast'.ret = [kind |-> "blockReject", at |-> "rbRej"]
           /\ chk' = chk
           /\ dd' = dd
           /\ TargetsUntouched]_vars

\* a recipient refused by its block after another recipient was accepted
C29_Witness ==
  /\ dlast.op = "AddRcpt"
  /\ dlast.arg = <<"v", "@", "bad">>
  /\ dlast.ret = [kind |-> "blockReject", at |-> "rbRej"]
  /\ Len(objs) > 0
  /\ chk.rcptCreated["rbRej"] = 0

\* C30: when a CheckBody rejects (with its own error or through the score),
\* Body fails with that rejection before Body is called on any delivery and
\* before any field is added to the header.
C30_BodyRejectedBeforeDelivery ==
  [][(/\ dphase = "ready" /\ dlast'.op = "Body"
      /\ dlast'.ret.kind \in {"checkReject", "550 5.7.0"})
     => /\ dphase' = "body_failed"
        /\ objs' = objs
        /\ ~dlast'.hdr]_vars

\* a later CheckBody rejected after an earlier one changed the score, with two
\* deliveries open
C30_Witness ==
  /\ dlast.op = "Body"
  /\ dlast.ret.kind = "checkReject"
  /\ dlast.adj # 0
  /\ Len(objs) = 2
  /\ \A i \in 1..Len(objs) : objs[i].bodies = 0
  /\ ~dlast.hdr

\* C28: a check result with a reject error rejects with it and changes
\* nothing; any other result is added to the running score, which is then
\* compared with the thresholds: rejectScore set and score >= rejectScore
\* rejects with 550 5.7.0 (the flag is then set only if the result asked for
\* it); otherwise quarantineScore set and score >= quarantineScore sets the
\* Quarantine flag; an unset threshold never triggers.
C28_ThresholdsAfterEachResult ==
  [][(dphase = "check" /\ dphase' = "checked")
     => LET r == dlast'.res
            s == dd.checkScore + r.adj
        IN IF r.rej
           THEN /\ dlast'.ret = Err("checkReject", "check")
                /\ dd' = dd
                /\ quarantine' = quarantine
           ELSE /\ dd'.checkScore = s
                /\ IF cfg.rejectScore.set /\ s >= cfg.rejectScore.val
                   THEN /\ dlast'.ret = Err("550 5.7.0", "score")
                        /\ quarantine' = (quarantine \/ r.quar)
                   ELSE /\ dlast'.ret = NoErr
                        /\ quarantine' = (\/ quarantine \/ r.quar
                                          \/ (/\ cfg.quarantineScore.set
                                              /\ s >= cfg.quarantineScore.val))]_vars

\* a result that reaches both thresholds: rejected, and not quarantined
C28_Witness ==
  /\ dlast.op = "checkResult"
  /\ dlast.ret = Err("550 5.7.0", "score")
  /\ dlast.res.adj = 5
  /\ cfg.quarantineScore.set
  /\ dd.checkScore >= cfg.quarantineScore.val
  /\ ~quarantine

\* the map a call works on, now and after the step
RegOf(g) == IF OnModules(rpc[g].op) THEN modules ELSE instances
RegOfNext(g) == IF OnModules(rpc[g].op) THEN modules' ELSE instances'

\* C21: under every interleaving of Register, RegisterInstance, GetMod and
\* GetInstance a name maps to at most one registered value: an entry, once set,
\* never changes; a registration under a name that is taken panics and leaves
\* the maps and ModuleDirectives as they were; a registration writes only when
\* the name is free; and a Get returns the entry of that moment.
C21_RegistryEntriesAreStable ==
  [][ /\ \A n \in RegNames :
           /\ modules[n] # Nil => modules'[n] = modules[n]
           /\ instances[n] # Nil => instances'[n] = instances[n]
      /\ \A g \in Goroutines :
           /\ (rpc[g].pc = "check" /\ rpc'[g].pc # "check" /\ RegOf(g)[rpc[g].name] # Nil)
                => /\ rpc'[g].ret.kind = "panic"
                   /\ modules' = modules /\ instances' = instances
                   /\ ModuleDirectives' = ModuleDirectives
           /\ (rpc[g].pc # "idle" /\ rpc'[g].ret.kind = "panic")
                => /\ RegOf(g)[rpc[g].name] # Nil
                   /\ modules' = modules /\ instances' = instances
                   /\ ModuleDirectives' = ModuleDirectives
           /\ (rpc[g].pc = "write" /\ rpc'[g].pc # "write")
                => /\ RegOf(g)[rpc[g].name] = Nil
                   /\ RegOfNext(g)[rpc[g].name] = g
           /\ (rpc[g].pc = "read" /\ rpc'[g].pc # "read")
                => rpc'[g].ret.val = RegOf(g)[rpc[g].name] ]_vars

\* one goroutine registered a module name, another one's Register under that
\* name panicked, and the second one had registered an instance under it
C21_Witness ==
  \E g, h \in Goroutines :
    /\ g # h
    /\ modules["a"] = g
    /\ rpc[h].op = "Register" /\ rpc[h].name = "a"
    /\ rpc[h].pc = "idle" /\ rpc[h].ret.kind = "panic"
    /\ instances["a"] = h

\* the error of the last delivery, in the order of the calls, whose Abort failed
lastFailing(order, fails) ==
  LET idx == { k \in 1..Len(order) : order[k] \in fails }
  IN IF idx = {} THEN NoErr
     ELSE Err("abortErr", order[CHOOSE k \in idx : \A j \in idx : j <= k])

\* C10: dispatcher Abort calls Abort on every delivery opened for the message,
\* also after some of these calls returned an error, and returns the last
\* error it observed (nil when no call failed).
C10_AbortReachesEveryDelivery ==
  dlast.op = "Abort" =>
    /\ \A i \in 1..Len(objs) : objs[i].aborts = 1
    /\ dlast.ret = lastFailing(dlast.order, dlast.fails)

\* two deliveries were open, Abort of the first one called failed, Abort of the
\* second succeeded
C10_Witness ==
  /\ dlast.op = "Abort"
  /\ Len(dlast.order) = 2
  /\ dlast.order[1] \in dlast.fails
  /\ dlast.order[2] \notin dlast.fails

(***************************************************************************)
(* Properties of the queue.                                                *)
(***************************************************************************)
\* the step is a delivery attempt for the entry
Attempted(id) == hist'[id].attempts = hist[id].attempts + 1
\* the step is the initialisation of a queue on the directory
Reinited == qstate # "running" /\ qstate' = "running"

\* C2: after start-up recovery, for every delivery ID either all three files
\* exist or none does, whichever file was missing before start-up and wherever
\* the acceptance write sequence was interrupted.
C2_AllOrNothingAfterRecovery ==
  (qgen = "reinit" /\ qstate = "running") =>
    \A id \in QIds : qfiles[id] = {} \/ qfiles[id] = Files

\* C3: from the second attempt on, the recipients offered to the target are
\* exactly those that failed temporarily in the attempt before, and none of them
\* succeeded or failed permanently in an earlier attempt.
C3_OfferedAreTheTemporaryFailed ==
  \A id \in QIds :
    hist[id].attempts >= 2 =>
      /\ hist[id].offered = hist[id].expected
      /\ hist[id].offered \cap hist[id].doneBefore = {}
\* a second attempt was made after one recipient had failed permanently and
\* another temporarily
C3_Witness ==
  \E id \in QIds :
    /\ hist[id].attempts >= 2
    /\ hist[id].doneBefore # {}
    /\ hist[id].offered # {}

\* C4: every attempt ends the downstream delivery with exactly one of Commit
\* and Abort; when Body returned a PartialError it is Commit if and only if a
\* recipient of the delivery is in neither Failed nor TemporaryFailed.
C4_PartialErrorCommitOrAbort ==
  \A id \in QIds :
    hist[id].attempts >= 1 =>
      /\ hist[id].commits + hist[id].aborts = 1
      /\ qbody[id].kind = "partial" =>
           (hist[id].commits = 1 <=>
              hist[id].rcptTo \ (qbody[id].failed \cup qbody[id].temp) # {})
\* Body returned a PartialError naming a failed recipient while another
\* recipient succeeded, and the delivery was committed
C4_Witness ==
  \E id \in QIds :
    /\ qbody[id].kind = "partial"
    /\ qbody[id].failed # {}
    /\ hist[id].rcptTo \ (qbody[id].failed \cup qbody[id].temp) # {}
    /\ hist[id].commits = 1

\* C5: the attempt in which Body returns a flat permanent error aborts the
\* downstream delivery, leaves none of the entry's three files and no retry on
\* the wheel, and no attempt follows it (so an entry whose first Body fails
\* this way gets exactly one attempt).
C5_FlatPermanentEndsTheEntry ==
  [][\A id \in QIds :
       /\ (Attempted(id) /\ qbody'[id].kind = "flatPerm") =>
            /\ hist'[id].aborts = 1 /\ hist'[id].commits = 0
            /\ qfiles'[id] = {}
            /\ id \notin wheel'
       /\ qbody[id].kind = "flatPerm" => ~Attempted(id)]_vars
\* the first Body of an entry failed with a flat permanent error
C5_Witness ==
  \E id \in QIds :
    /\ qbody[id].kind = "flatPerm"
    /\ hist[id].attempts = 1
    /\ hist[id].aborts = 1
    /\ qfiles[id] = {}

C7_RetryAfterReinit ==
  /\ [][\A id \in QIds :
          /\ (Reinited /\ qfiles[id] = Files) =>
               (id \in wheel' /\ qfiles'[id] = Files /\ qmeta'[id] = qmeta[id])
          /\ (Attempted(id) /\ qgen = "reinit" /\ hist[id].attempts >= 1) =>
               (/\ hist'[id].offered = hist[id].temp
                /\ hist'[id].offered = qmeta[id].to
                /\ (hist'[id].temp = {} /\ qbody'[id].kind = "ok") =>
                     qfiles'[id] = {})]_vars
  /\ \A id \in QIds :
       (qgen = "reinit" /\ qstate = "running" /\ id \in wheel /\ hist[id].epoch = "first")
         ~> (hist[id].epoch = "reinit" \/ qstate # "running")
\* the retry of an entry was made by a queue initialised on the directory, for
\* the recipients that had failed temporarily before, and it succeeded
C7_Witness ==
  \E id \in QIds :
    /\ qgen = "reinit"
    /\ hist[id].epoch = "reinit"
    /\ hist[id].attempts >= 2
    /\ hist[id].expected # {}
    /\ hist[id].offered = hist[id].expected
    /\ qbody[id].kind = "ok"
    /\ hist[id].temp = {}
    /\ qfiles[id] = {}

\* C8: an entry on the wheel of a running queue is eventually removed from
\* disk, unless the queue stops running, whatever the downstream target returns.
C8_EventuallyRemoved ==
  \A id \in QIds :
    (qstate = "running" /\ id \in wheel /\ qfiles[id] = Files)
      ~> (qfiles[id] = {} \/ qstate # "running")
\* an entry was removed after several attempts, the last one leaving no
\* recipient, by the queue that had accepted it
C8_Witness ==
  \E id \in QIds :
    /\ qstate = "running" /\ qgen = "first"
    /\ hist[id].attempts >= 3
    /\ hist[id].temp = {}
    /\ qfiles[id] = {}

\* C9: an entry gets at most maxTries attempts; the attempt number maxTries
\* that leaves recipients deletes the entry instead of rescheduling it.
C9_AtMostMaxTries ==
  /\ \A id \in QIds : hist[id].attempts <= maxTries
  /\ \A id \in QIds : qfiles[id] = Files => qmeta[id].tries = hist[id].attempts
  /\ \A id \in QIds :
       (hist[id].attempts = maxTries) => (qfiles[id] = {} /\ id \notin wheel)
\* the last allowed attempt left temporarily failed recipients and the entry
\* is gone
C9_Witness ==
  \E id \in QIds :
    /\ hist[id].attempts = maxTries
    /\ hist[id].temp # {}
    /\ qfiles[id] = {}
    /\ id \notin wheel

\* C31 as stated: the attempt in which Body returns a flat temporary error
\* aborts the downstream delivery, keeps every recipient that AddRcpt did not
\* reject permanently, persists the entry and reschedules it.
C31_FlatTemporaryAlwaysRescheduled ==
  [][\A id \in QIds :
       (Attempted(id) /\ qbody'[id].kind = "flatTemp") =>
         /\ hist'[id].aborts = 1 /\ hist'[id].commits = 0
         /\ qmeta'[id].to = hist'[id].offered \ rejected(qrcpt'[id], "perm")
         /\ qmeta'[id].tries = qmeta[id].tries + 1
         /\ qfiles'[id] = Files
         /\ id \in wheel']_vars

\* C31, amended: the attempt in which Body returns a flat temporary error aborts
\* the downstream delivery and treats every recipient that AddRcpt did not
\* reject permanently as temporarily failed; before attempt number maxTries the
\* entry is persisted with exactly these recipients and stays on the wheel, at
\* attempt number maxTries its three files are deleted and it is not rescheduled.
C31_FlatTemporaryKeepsRecipients ==
  [][\A id \in QIds :
       (Attempted(id) /\ qbody'[id].kind = "flatTemp") =>
         /\ hist'[id].aborts = 1 /\ hist'[id].commits = 0
         /\ hist'[id].temp = hist'[id].offered \ rejected(qrcpt'[id], "perm")
         /\ hist'[id].attempts < maxTries =>
              /\ qmeta'[id].to = hist'[id].offered \ rejected(qrcpt'[id], "perm")
              /\ qmeta'[id].tries = qmeta[id].tries + 1
              /\ qfiles'[id] = Files
              /\ id \in wheel'
         /\ hist'[id].attempts >= maxTries =>
              (qfiles'[id] = {} /\ id \notin wheel')]_vars
\* Body failed with a flat temporary error for the accepted recipient, after
\* AddRcpt had rejected the other one temporarily; both are kept for the retry
C31_Witness ==
  \E id \in QIds :
    /\ qbody[id].kind = "flatTemp"
    /\ rejected(qrcpt[id], "temp") # {}
    /\ rejected(qrcpt[id], "ok") # {}
    /\ hist[id].aborts = 1
    /\ qmeta[id].to = hist[id].offered
    /\ Cardinality(qmeta[id].to) = 2
    /\ id \in wheel

\* the step is Queue.Close returning
Closed == qstate = "running" /\ qstate' = "closed"

\* C32: once Queue.Close has returned no delivery attempt is started by that
\* queue (nothing is left on its wheel), and Close leaves an entry that waits
\* for a retry on disk with its three files and its metadata.
C32_NoAttemptAfterClose ==
  [][\A id \in QIds :
       /\ qstate = "closed" => ~Attempted(id)
       /\ qstate' = "closed" => wheel' = {}
       /\ (Closed /\ id \in wheel) =>
            (qfiles'[id] = Files /\ qfiles[id] = Files /\ qmeta'[id] = qmeta[id])]_vars
\* the queue was closed while an entry waited for the retry of a recipient
\* that had failed temporarily
C32_Witness ==
  \E id \in QIds :
    /\ qstate = "closed" /\ qgen = "first"
    /\ hist[id].attempts >= 1
    /\ hist[id].temp # {}
    /\ qmeta[id].to = hist[id].temp
    /\ qfiles[id] = Files

\* C33: a reader of the cache file meets a complete entry (the one that was
\* there before a store began or the one that store writes) or no file, never
\* a file that cannot be decoded.
C33_ReadersSeeCompleteEntry ==
  loaded.seen => (loaded.err # "other" /\ loaded.file.kind # "corrupt")

\* the media type of a Content-Type value (what precedes its parameters)
MediaType(ctype) == ctype[1]

\* C34: the policy download follows no redirect: a policy is returned only
\* when the direct response to the request has status 200 and Content-Type
\* text/plain, and it is the policy of that response; any other answer gives an
\* error and no policy.
C34_PolicyOnlyFromDirectResponse ==
  download.called =>
    LET direct == download.chain[1]
        good == direct.status = 200 /\ MediaType(direct.ctype) = "text/plain"
    IN /\ download.ret.err = "nil" => (good /\ download.ret.policy.text = direct.body)
       /\ ~good => (download.ret.err # "nil" /\ download.ret.policy = NilPolicy)

\* the first step of the pipeline whose Pass returns continueProcessing = false
\* (0: none)
FirstStop(steps) ==
  IF \A i \in 1..Len(steps) : steps[i].cont THEN 0
  ELSE CHOOSE i \in 1..Len(steps) : ~steps[i].cont /\ \A j \in 1..(i-1) : steps[j].cont

\* C38: when a step's Pass returns continueProcessing = false no later step of
\* the pipeline is run, and a non-nil error it returned is what
\* passThroughPipeline returns.
C38_StopEndsThePipeline ==
  (pipe.called /\ FirstStop(pipe.steps) # 0) =>
    LET i == FirstStop(pipe.steps)
    IN /\ pipe.ret.ran = [k \in 1..i |-> k]
       /\ pipe.steps[i].err # "nil" => pipe.ret.err = pipe.steps[i].err

\* the number of times x occurs in the sequence
Count(seq, x) == Cardinality({ i \in 1..Len(seq) : seq[i] = x })

\* C39: destinationStep.Pass partitions ctx.To: every recipient is afterwards
\* in the matched list or in ctx.To as often as it was in ctx.To, and never in
\* both.
C39_RecipientsArePartitioned ==
  dest.called =>
    \A r \in DestRcpts :
      /\ Count(dest.ret.matched, r) + Count(dest.ret.ctxTo, r) = Count(dest.to, r)
      /\ Count(dest.ret.matched, r) = 0 \/ Count(dest.ret.ctxTo, r) = 0

\* C40: a Deliver that succeeds has stored, for every recipient of ctx.To in
\* turn, the Return-Path and Delivered-To prefix followed by all bytes of the
\* message, with a literal length equal to the number of bytes supplied.
C40_EveryRecipientGetsTheMessage ==
  (sqld.called /\ sqld.ret.err = "nil") =>
    /\ Len(sqld.ret.stored) = Len(sqld.to)
    /\ \A i \in 1..Len(sqld.to) :
         /\ sqld.ret.stored[i].rcpt = sqld.to[i]
         /\ sqld.ret.stored[i].bytes = headerPrefix(sqld.to[i]) \o sqld.body
         /\ sqld.ret.stored[i].length = Len(sqld.ret.stored[i].bytes)

\* C37: Data returns nil to the client only when the delivery was committed:
\* when Body or Commit returns an error, Data returns an error.
C37_SuccessOnlyIfCommitted ==
  sdata.called =>
    /\ sdata.ret.err = "nil" => (sdata.ret.commitCalled /\ sdata.in.commit = "nil")
    /\ (sdata.ret.bodyCalled /\ sdata.in.body = "err") => sdata.ret.err # "nil"
    /\ (sdata.ret.commitCalled /\ sdata.in.commit = "err") => sdata.ret.err # "nil"

\* C35: once initialisation has completed the registries are read-only: a
\* Register or RegisterInstance call made after it never gets to write an
\* entry (it panics).
C35_RegistriesReadOnlyAfterInit ==
  \A g \in Goroutines :
    (rpc[g].afterInit /\ IsRegister(rpc[g].op)) => rpc[g].pc \notin {"write", "unlock"}

\* the AddRcpt calls that delivery object i accepted in the step
AcceptedInStep(i) ==
  LET before == IF i <= Len(objs) THEN Len(objs[i].calls) ELSE 0
  IN { k \in (before + 1)..Len(objs'[i].calls) : objs'[i].calls[k].ok }

\* C36: when dispatcher AddRcpt returns an error the recipient has been added
\* to no target delivery; when it returns nil, to the deliveries of all targets
\* of its recipient block.
C36_RcptAddedToAllTargetsOrNone ==
  [][AddRcptStep =>
       IF dlast'.ret # NoErr
       THEN \A i \in 1..Len(objs') : AcceptedInStep(i) = {}
       ELSE \A t \in Range(blockTargets(resolveRcpt(dd.sourceBlock, dlast'.arg).block)) :
              \E i \in 1..Len(objs') : objs'[i].target = t /\ AcceptedInStep(i) # {}]_vars
====
